---- MODULE Spec2Model ----
(***************************************************************************)
(* TootPic: the Fediverse post-ingestion pipeline.                         *)
(*   - LRUCache (utils/apiCache.ts): bounded, time-expiring result cache   *)
(*   - parseFediverseUrl (utils/activitypubParser.ts): the URL matcher     *)
(*   - FediverseClient.fetchPost (utils/fediverseClient.ts): orchestrator  *)
(*     and platform fetchers                                               *)
(*   - the acct repair of the route POST /api/fetch-post and the emoji     *)
(*     merge of the normalizers                                            *)
(* Strings are sequences of one-character strings, so that regular         *)
(* expressions, trim(), toLowerCase() and includes() are computed.         *)
(***************************************************************************)
EXTENDS Integers, Sequences, FiniteSets, TLC

VARIABLES
  cache,     \* LRUCache.cache: the Map, as the sequence of its entries in iteration order
  now,       \* Date.now(), in clock ticks
  calls,     \* one fetchPost invocation per caller: position and locals
  inputs,    \* the values the callers pass to fetchPost in this behaviour
  recency,   \* history: keys of the cache by last access, least recent first
  lastOp,    \* history: the last LRUCache operation applied and what it returned
  parseIn,   \* argument handed to parseFediverseUrl, or to a conversion
  parseOut   \* what parseFediverseUrl, or the conversion, returned for parseIn

vars == <<cache, now, calls, inputs, recency, lastOp, parseIn, parseOut>>

(***************************************************************************)
(* Bounds of the model.                                                    *)
(***************************************************************************)
MaxSize == 2          \* capacity of the cache (100 in the program)
TTL == 1              \* time to live in clock ticks (30 minutes in the program)
MaxTime == TTL + 1    \* the clock stops here
NumKeys == MaxSize + 1 \* distinct keys offered to a stand-alone cache
MaxEmojis == 2        \* the longest emoji list of an upstream answer
MaxTags == 1          \* the longest tag list of an upstream answer

(***************************************************************************)
(* JavaScript values.                                                      *)
(***************************************************************************)
\* null and undefined where an object is expected
Null == [isNull |-> TRUE]

\* undefined where a string is expected (a string is the tuple of its characters)
Undefined == <<"undefined">>

(***************************************************************************)
(* Map<string, CacheEntry>: insertion-ordered.                             *)
(***************************************************************************)
MapKeys(c) == {c[i].key : i \in 1..Len(c)}

MapHas(c, key) == key \in MapKeys(c)

MapIndex(c, key) == CHOOSE i \in 1..Len(c) : c[i].key = key

MapGet(c, key) == c[MapIndex(c, key)]

MapDelete(c, key) == SelectSeq(c, LAMBDA e : e.key # key)

\* Map.set keeps the position of a key that is present and appends a new key
MapSet(c, key, entry) ==
  IF MapHas(c, key) THEN [c EXCEPT ![MapIndex(c, key)] = entry]
                    ELSE Append(c, entry)

\* this.cache.keys().next().value
MapFirstKey(c) == IF Len(c) = 0 THEN Undefined ELSE c[1].key

\* variant: the entry expires at the time it is written
CacheEntryNoTtl(key, data, t, ttl) ==
  [key |-> key, data |-> data, timestamp |-> t, expiresAt |-> t]

\* the entry set() and setWithCustomTTL() write
CacheEntry(key, data, t, ttl) ==
  [key |-> key, data |-> data, timestamp |-> t, expiresAt |-> t + ttl]

(***************************************************************************)
(* class LRUCache.  Every method is a function of the Map and of the clock *)
(* and yields the new Map and the returned value.                          *)
(***************************************************************************)
\* variant: a hit removes the entry for promotion and does not put it back
LRUGetDeleteOnly(c, key, t) ==
  IF ~MapHas(c, key) THEN [cache |-> c, ret |-> Null]
  ELSE LET entry == MapGet(c, key) IN
       IF t > entry.expiresAt
       THEN [cache |-> MapDelete(c, key), ret |-> Null]
       ELSE [cache |-> MapDelete(c, key), ret |-> entry.data]

\* variant: a hit writes the entry anew, with a fresh lifetime
LRUGetRefresh(c, key, t) ==
  IF ~MapHas(c, key) THEN [cache |-> c, ret |-> Null]
  ELSE LET entry == MapGet(c, key) IN
       IF t > entry.expiresAt
       THEN [cache |-> MapDelete(c, key), ret |-> Null]
       ELSE [cache |-> MapSet(MapDelete(c, key), key, CacheEntry(key, entry.data, t, TTL)),
             ret |-> entry.data]

\* variant: a hit leaves the entry where it is in the Map
LRUGetNoPromote(c, key, t) ==
  IF ~MapHas(c, key) THEN [cache |-> c, ret |-> Null]
  ELSE LET entry == MapGet(c, key) IN
       IF t > entry.expiresAt
       THEN [cache |-> MapDelete(c, key), ret |-> Null]
       ELSE [cache |-> c, ret |-> entry.data]

\* variant: no expiry test
LRUGetStale(c, key, t) ==
  IF ~MapHas(c, key) THEN [cache |-> c, ret |-> Null]
  ELSE LET entry == MapGet(c, key) IN
       [cache |-> MapSet(MapDelete(c, key), key, entry), ret |-> entry.data]

\* get(key): an expired entry is deleted; a hit is re-inserted at the end
LRUGet(c, key, t) ==
  IF ~MapHas(c, key) THEN [cache |-> c, ret |-> Null]
  ELSE LET entry == MapGet(c, key) IN
       IF t > entry.expiresAt
       THEN [cache |-> MapDelete(c, key), ret |-> Null]
       ELSE [cache |-> MapSet(MapDelete(c, key), key, entry), ret |-> entry.data]

\* the two leading steps of set and setWithCustomTTL
EvictForInsert(c, key, maxSize) ==
  LET c1 == IF MapHas(c, key) THEN MapDelete(c, key) ELSE c
      firstKey == MapFirstKey(c1)
  IN IF Len(c1) >= maxSize
     THEN (IF firstKey # Undefined THEN MapDelete(c1, firstKey) ELSE c1)
     ELSE c1

\* variant: the capacity test comes before the removal of the existing entry
LRUSetEvictFirst(c, key, data, t) ==
  LET c1 == IF Len(c) >= MaxSize /\ MapFirstKey(c) # Undefined
            THEN MapDelete(c, MapFirstKey(c)) ELSE c
      c2 == IF MapHas(c1, key) THEN MapDelete(c1, key) ELSE c1
  IN MapSet(c2, key, CacheEntry(key, data, t, TTL))

\* set(key, data)
LRUSet(c, key, data, t) ==
  MapSet(EvictForInsert(c, key, MaxSize), key, CacheEntry(key, data, t, TTL))

LRUSetWithCustomTTL(c, key, data, ttlTicks, t) ==
  MapSet(EvictForInsert(c, key, MaxSize), key, CacheEntry(key, data, t, ttlTicks))

LRUHas(c, key, t) ==
  LET r == LRUGet(c, key, t) IN [cache |-> r.cache, ret |-> (r.ret # Null)]

LRUDelete(c, key) == [cache |-> MapDelete(c, key), ret |-> MapHas(c, key)]

LRUClear(c) == <<>>

LRUCleanup(c, t) == SelectSeq(c, LAMBDA e : ~(t > e.expiresAt))

(***************************************************************************)
(* Strings: character classes and the String.prototype methods in use.     *)
(***************************************************************************)
Digit == {"0", "1", "2", "3", "4", "5", "6", "7", "8", "9"}

LowerSeq == <<"a", "b", "c", "d", "e", "f", "g", "h", "i", "j", "k", "l", "m", "n", "o", "p", "q", "r", "s", "t", "u", "v", "w", "x", "y", "z">>

UpperSeq == <<"A", "B", "C", "D", "E", "F", "G", "H", "I", "J", "K", "L", "M", "N", "O", "P", "Q", "R", "S", "T", "U", "V", "W", "X", "Y", "Z">>

Lower == {LowerSeq[i] : i \in 1..Len(LowerSeq)}

Upper == {UpperSeq[i] : i \in 1..Len(UpperSeq)}

HexLower == {"a", "b", "c", "d", "e", "f"}

WhiteSpace == {" ", "\t", "\n", "\r"}

LineTerminator == {"\n", "\r"}

\* membership in a character class of the regular expressions
InClass(c, ch) ==
  CASE c = "[^/]"         -> ch # "/"
    [] c = "[^/?]"        -> ch \notin {"/", "?"}
    [] c = "\\d"          -> ch \in Digit
    [] c = "[a-zA-Z0-9-]" -> ch \in Lower \cup Upper \cup Digit \cup {"-"}
    [] c = "[a-zA-Z0-9]"  -> ch \in Lower \cup Upper \cup Digit
    [] c = "[a-zA-Z0-9_-]" -> ch \in Lower \cup Upper \cup Digit \cup {"_", "-"}
    [] c = "[a-f0-9-]"    -> ch \in HexLower \cup Digit \cup {"-"}
    [] c = "[a-zA-Z0-9+.-]" -> ch \in Lower \cup Upper \cup Digit \cup {"+", ".", "-"}
    [] OTHER              -> FALSE

StartsWithAt(s, pos, sub) ==
  /\ pos + Len(sub) - 1 <= Len(s)
  /\ \A j \in 1..Len(sub) : s[pos + j - 1] = sub[j]

StartsWith(s, sub) == StartsWithAt(s, 1, sub)

\* String.prototype.includes
Includes(s, sub) == \E pos \in 1..(Len(s) + 1) : StartsWithAt(s, pos, sub)

\* String.prototype.trim
Trim(s) ==
  LET keep == {i \in 1..Len(s) : s[i] \notin WhiteSpace} IN
  IF keep = {} THEN <<>>
  ELSE LET lo == CHOOSE i \in keep : \A j \in keep : i <= j
           hi == CHOOSE i \in keep : \A j \in keep : i >= j
       IN SubSeq(s, lo, hi)

LowerOf(ch) ==
  IF ch \in Upper
  THEN LowerSeq[CHOOSE i \in 1..Len(UpperSeq) : UpperSeq[i] = ch]
  ELSE ch

\* String.prototype.toLowerCase
ToLowerCase(s) == [i \in 1..Len(s) |-> LowerOf(s[i])]

(***************************************************************************)
(* Regular expressions.  A pattern is a sequence of elements; matching is  *)
(* greedy with backtracking, alternatives are tried left to right, as      *)
(* RegExp does.  The result carries the capture groups in order.           *)
(***************************************************************************)
Lit(s) == [k |-> "lit", s |-> s, c |-> "", alts |-> <<>>]          \* literal text
Opt(ch) == [k |-> "opt", s |-> <<ch>>, c |-> "", alts |-> <<>>]     \* ch?
Plus(c) == [k |-> "plus", s |-> <<>>, c |-> c, alts |-> <<>>]       \* [class]+
Alt(alts) == [k |-> "alt", s |-> <<>>, c |-> "", alts |-> alts]     \* a|b|c
Open == [k |-> "open", s |-> <<>>, c |-> "", alts |-> <<>>]         \* (
Close == [k |-> "close", s |-> <<>>, c |-> "", alts |-> <<>>]       \* )
TailEnd == [k |-> "tail", s |-> <<>>, c |-> "", alts |-> <<>>]      \* (?:\/.*)?$

NoMatch == [ok |-> FALSE, caps |-> <<>>]

\* length of the longest run of class c in s from pos
RECURSIVE RunLen(_, _, _)
RunLen(c, s, pos) ==
  IF pos <= Len(s) /\ InClass(c, s[pos]) THEN 1 + RunLen(c, s, pos + 1) ELSE 0

\* (?:\/.*)?$ : nothing left, or a slash followed by anything but a line terminator
TailMatches(s, pos) ==
  \/ pos = Len(s) + 1
  \/ /\ pos <= Len(s)
     /\ s[pos] = "/"
     /\ \A j \in (pos + 1)..Len(s) : s[j] \notin LineTerminator

RECURSIVE MatchAt(_, _, _, _, _, _)
RECURSIVE MatchPlus(_, _, _, _, _, _, _)
RECURSIVE MatchAlt(_, _, _, _, _, _, _)

MatchAt(pat, i, s, pos, open, caps) ==
  IF i > Len(pat) THEN [ok |-> TRUE, caps |-> caps]
  ELSE LET e == pat[i] IN
    CASE e.k = "lit" ->
           IF StartsWithAt(s, pos, e.s)
           THEN MatchAt(pat, i + 1, s, pos + Len(e.s), open, caps)
           ELSE NoMatch
      [] e.k = "opt" ->
           LET taken == IF StartsWithAt(s, pos, e.s)
                        THEN MatchAt(pat, i + 1, s, pos + 1, open, caps)
                        ELSE NoMatch
           IN IF taken.ok THEN taken ELSE MatchAt(pat, i + 1, s, pos, open, caps)
      [] e.k = "plus" -> MatchPlus(pat, i, s, pos, open, caps, RunLen(e.c, s, pos))
      [] e.k = "alt" -> MatchAlt(pat, i, s, pos, open, caps, 1)
      [] e.k = "open" -> MatchAt(pat, i + 1, s, pos, pos, caps)
      [] e.k = "close" ->
           MatchAt(pat, i + 1, s, pos, open, Append(caps, SubSeq(s, open, pos - 1)))
      [] e.k = "tail" ->
           IF TailMatches(s, pos)
           THEN MatchAt(pat, i + 1, s, Len(s) + 1, open, caps)
           ELSE NoMatch

\* [class]+ taking n characters, then fewer
MatchPlus(pat, i, s, pos, open, caps, n) ==
  IF n < 1 THEN NoMatch
  ELSE LET r == MatchAt(pat, i + 1, s, pos + n, open, caps) IN
       IF r.ok THEN r ELSE MatchPlus(pat, i, s, pos, open, caps, n - 1)

\* the j-th alternative, then the following ones
MatchAlt(pat, i, s, pos, open, caps, j) ==
  IF j > Len(pat[i].alts) THEN NoMatch
  ELSE LET r == MatchAt(pat[i].alts[j] \o SubSeq(pat, i + 1, Len(pat)), 1, s, pos, open, caps) IN
       IF r.ok THEN r ELSE MatchAlt(pat, i, s, pos, open, caps, j + 1)

\* a pattern starting with ^
RegexMatchAnchored(pat, s) == MatchAt(pat, 1, s, 1, 1, <<>>)

\* an unanchored pattern: the leftmost start that matches
RECURSIVE RegexSearchFrom(_, _, _)
RegexSearchFrom(pat, s, start) ==
  IF start > Len(s) + 1 THEN NoMatch
  ELSE LET r == MatchAt(pat, 1, s, start, start, <<>>) IN
       IF r.ok THEN r ELSE RegexSearchFrom(pat, s, start + 1)

RegexSearch(pat, s) == RegexSearchFrom(pat, s, 1)

\* RegExp.prototype.test of a pattern that is plain text
RegexTestLiteral(text, s) == Includes(s, text)

(***************************************************************************)
(* SUPPORTED_PLATFORMS (types/activitypub.ts): the URL patterns.           *)
(***************************************************************************)
HttpPrefix == <<Lit(<<"h", "t", "t", "p">>), Opt("s"), Lit(<<":", "/", "/">>)>>            \* ^https?:\/\/

Group(c) == <<Open, Plus(c), Close>>                               \* ([class]+)

DomainGroup == Group("[^/]")                                        \* ([^\/]+)

Pat(elems) == HttpPrefix \o DomainGroup \o elems \o <<TailEnd>>

MastodonPatterns == <<
  Pat(<<Lit(<<"/", "@">>)>> \o Group("[^/]") \o <<Lit(<<"/">>)>> \o Group("\\d")),
  Pat(<<Lit(<<"/", "u", "s", "e", "r", "s", "/">>)>> \o Group("[^/]") \o <<Lit(<<"/", "s", "t", "a", "t", "u", "s", "e", "s", "/">>)>> \o Group("\\d")),
  Pat(<<Lit(<<"/", "@">>)>> \o Group("[^/]") \o <<Lit(<<"/", "s", "t", "a", "t", "u", "s", "e", "s", "/">>)>> \o Group("[a-zA-Z0-9-]")),
  Pat(<<Lit(<<"/", "u", "s", "e", "r", "s", "/">>)>> \o Group("[^/]") \o <<Lit(<<"/", "s", "t", "a", "t", "u", "s", "e", "s", "/">>)>> \o Group("[a-zA-Z0-9-]")) >>

PixelfedPatterns == <<
  Pat(<<Lit(<<"/", "p", "/">>)>> \o Group("[^/]") \o <<Lit(<<"/">>)>> \o Group("\\d")),
  Pat(<<Lit(<<"/", "@">>)>> \o Group("[^/]") \o <<Lit(<<"/", "p", "/">>)>> \o Group("\\d")),
  Pat(<<Lit(<<"/", "i", "/", "w", "e", "b", "/", "p", "o", "s", "t", "/">>)>> \o Group("\\d")),
  Pat(<<Lit(<<"/", "u", "s", "e", "r", "s", "/">>)>> \o Group("[^/]") \o <<Lit(<<"/", "s", "t", "a", "t", "u", "s", "e", "s", "/">>)>> \o Group("\\d")) >>

PeertubePatterns == <<
  Pat(<<Lit(<<"/", "v", "i", "d", "e", "o", "s", "/", "w", "a", "t", "c", "h", "/">>)>> \o Group("[a-zA-Z0-9-]")),
  Pat(<<Lit(<<"/", "w", "/">>)>> \o Group("[a-zA-Z0-9-]")),
  Pat(<<Lit(<<"/", "v", "i", "d", "e", "o", "s", "/", "w", "a", "t", "c", "h", "/", "p", "l", "a", "y", "l", "i", "s", "t", "/">>), Plus("[^/]"), Lit(<<"/", "v", "i", "d", "e", "o", "/">>)>> \o Group("[a-zA-Z0-9-]")),
  Pat(<<Lit(<<"/", "v", "i", "d", "e", "o", "/", "w", "a", "t", "c", "h", "/">>)>> \o Group("[a-zA-Z0-9-]")) >>

PleromaPatterns == <<
  Pat(<<Lit(<<"/", "o", "b", "j", "e", "c", "t", "s", "/">>)>> \o Group("[a-f0-9-]")),
  Pat(<<Lit(<<"/", "n", "o", "t", "i", "c", "e", "/">>)>> \o Group("[a-zA-Z0-9]")) >>

MisskeyPatterns == <<
  Pat(<<Lit(<<"/", "n", "o", "t", "e", "s", "/">>)>> \o Group("[a-zA-Z0-9]")) >>

Ech0Patterns == <<
  Pat(<<Lit(<<"/", "e", "c", "h", "o", "/">>)>> \o Group("\\d")),
  Pat(<<Lit(<<"/", "o", "b", "j", "e", "c", "t", "s", "/">>)>> \o Group("\\d")),
  Pat(<<Lit(<<"/", "p", "o", "s", "t", "s", "/">>)>> \o Group("\\d")),
  Pat(<<Lit(<<"/", "o", "b", "j", "e", "c", "t", "s", "/">>)>> \o Group("[a-zA-Z0-9_-]")),
  Pat(<<Lit(<<"/", "p", "o", "s", "t", "s", "/">>)>> \o Group("[a-zA-Z0-9_-]")),
  Pat(<<Lit(<<"/", "n", "o", "t", "e", "s", "/">>)>> \o Group("[a-zA-Z0-9_-]")) >>

\* the alternatives shared by the registry's generic pattern and the fallback pattern
GenericPathAlts == <<
  <<Lit(<<"@">>), Plus("[^/]")>>,
  <<Lit(<<"u", "s", "e", "r", "s", "/">>), Plus("[^/]")>>,
  <<Lit(<<"o", "b", "j", "e", "c", "t", "s", "/">>), Plus("[^/]")>>,
  <<Lit(<<"n", "o", "t", "i", "c", "e", "/">>), Plus("[^/]")>>,
  <<Lit(<<"n", "o", "t", "e", "s", "/">>), Plus("[^/]")>>,
  <<Lit(<<"s", "t", "a", "t", "u", "s", "e", "s", "/">>), Plus("[^/]")>>,
  <<Lit(<<"p", "/">>), Plus("[^/]"), Lit(<<"/">>), Plus("\\d")>>,
  <<Lit(<<"v", "i", "d", "e", "o", "s", "/", "w", "a", "t", "c", "h", "/">>), Plus("[^/]")>> >>

GenericPatterns == <<
  Pat(<<Lit(<<"/">>), Open,
        Alt(GenericPathAlts \o << <<Lit(<<"p", "o", "s", "t", "s", "/">>), Plus("[^/]")>> >>),
        Close>>) >>

\* variant: the registry lists Pixelfed before Mastodon
PlatformOrderPixelfedFirst ==
  <<"pixelfed", "mastodon", "peertube", "pleroma", "misskey", "ech0", "generic">>

PlatformOrder ==
  <<"mastodon", "pixelfed", "peertube", "pleroma", "misskey", "ech0", "generic">>

SUPPORTED_PLATFORMS ==
  [mastodon |-> [name |-> "Mastodon", urlPatterns |-> MastodonPatterns,
                 statusPath |-> "/api/v1/statuses/{id}", statusMethod |-> "GET"],
   pixelfed |-> [name |-> "Pixelfed", urlPatterns |-> PixelfedPatterns,
                 statusPath |-> "/api/v2/statuses/{id}", statusMethod |-> "GET"],
   peertube |-> [name |-> "PeerTube", urlPatterns |-> PeertubePatterns,
                 statusPath |-> "/api/v1/videos/{id}", statusMethod |-> "GET"],
   pleroma |-> [name |-> "Pleroma", urlPatterns |-> PleromaPatterns,
                statusPath |-> "/api/v1/statuses/{id}", statusMethod |-> "GET"],
   misskey |-> [name |-> "Misskey", urlPatterns |-> MisskeyPatterns,
                statusPath |-> "/api/notes/show", statusMethod |-> "POST"],
   ech0 |-> [name |-> "Ech0", urlPatterns |-> Ech0Patterns,
             statusPath |-> "/api/objects/{id}", statusMethod |-> "GET"],
   generic |-> [name |-> "Generic ActivityPub", urlPatterns |-> GenericPatterns,
                statusPath |-> "/.well-known/webfinger", statusMethod |-> "GET"]]

(***************************************************************************)
(* parseFediverseUrl (utils/activitypubParser.ts).                         *)
(***************************************************************************)
\* the fallback pattern of parseFediverseUrl
GenericFallbackPattern ==
  Pat(<<Lit(<<"/">>), Open,
        Alt(GenericPathAlts \o << <<Lit(<<"w", "/">>), Plus("[^/]")>>,
                                  <<Lit(<<"i", "/", "w", "e", "b", "/", "p", "o", "s", "t", "/">>), Plus("\\d")>> >>),
        Close>>)

\* /\/(\d+)(?:\/.*)?$/
TrailingDigitsPattern == <<Lit(<<"/">>)>> \o Group("\\d") \o <<TailEnd>>

\* /\/(objects|notice|notes)\/([^\/\?]+)(?:\/.*)?$/
ObjectIdPattern ==
  <<Lit(<<"/">>), Open,
    Alt(<< <<Lit(<<"o", "b", "j", "e", "c", "t", "s">>)>>, <<Lit(<<"n", "o", "t", "i", "c", "e">>)>>, <<Lit(<<"n", "o", "t", "e", "s">>)>> >>),
    Close, Lit(<<"/">>)>> \o Group("[^/?]") \o <<TailEnd>>

\* /\/p\/[^\/]+\/(\d+)(?:\/.*)?$/
PixelfedIdPattern ==
  <<Lit(<<"/", "p", "/">>), Plus("[^/]"), Lit(<<"/">>)>> \o Group("\\d") \o <<TailEnd>>

\* /\/videos\/watch\/([^\/\?]+)(?:\/.*)?$/
VideoIdPattern == <<Lit(<<"/", "v", "i", "d", "e", "o", "s", "/", "w", "a", "t", "c", "h", "/">>)>> \o Group("[^/?]") \o <<TailEnd>>

ParsedUrl(platform, domain, id, originalUrl, username) ==
  [platform |-> platform, domain |-> domain, id |-> id,
   originalUrl |-> originalUrl, username |-> username]

\* what one successful match of a platform pattern yields (match = <<whole>> \o caps)
ParsedFromMatch(platformKey, caps, normalizedUrl) ==
  ParsedUrl(platformKey, caps[1], caps[Len(caps)], normalizedUrl,
            IF Len(caps) + 1 > 3 THEN caps[2] ELSE Undefined)

\* the inner loop: the patterns of one platform, from the j-th on
RECURSIVE FirstPatternMatch(_, _, _)
FirstPatternMatch(patterns, j, s) ==
  IF j > Len(patterns) THEN NoMatch
  ELSE LET m == RegexMatchAnchored(patterns[j], s) IN
       IF m.ok THEN m ELSE FirstPatternMatch(patterns, j + 1, s)

\* the outer loop: the platforms in the order of Object.entries, from the i-th on
RECURSIVE FirstPlatformMatch(_, _, _)
FirstPlatformMatch(order, i, s) ==
  IF i > Len(order) THEN Null
  ELSE LET m == FirstPatternMatch(SUPPORTED_PLATFORMS[order[i]].urlPatterns, 1, s) IN
       IF m.ok THEN ParsedFromMatch(order[i], m.caps, s)
       ELSE FirstPlatformMatch(order, i + 1, s)

\* the id extracted by the generic fallback from the matched path
GenericFallbackId(path, normalizedUrl) ==
  IF Includes(path, <<"/", "@">>) \/ Includes(path, <<"/", "u", "s", "e", "r", "s", "/">>)
  THEN LET pm == RegexSearch(TrailingDigitsPattern, normalizedUrl) IN
       IF pm.ok THEN pm.caps[1] ELSE path
  ELSE IF Includes(path, <<"/", "o", "b", "j", "e", "c", "t", "s", "/">>) \/ Includes(path, <<"/", "n", "o", "t", "i", "c", "e", "/">>) \/ Includes(path, <<"/", "n", "o", "t", "e", "s", "/">>)
  THEN LET pm == RegexSearch(ObjectIdPattern, normalizedUrl) IN
       IF pm.ok THEN pm.caps[2] ELSE path
  ELSE IF Includes(path, <<"/", "p", "/">>)
  THEN LET pm == RegexSearch(PixelfedIdPattern, normalizedUrl) IN
       IF pm.ok THEN pm.caps[1] ELSE path
  ELSE IF Includes(path, <<"/", "v", "i", "d", "e", "o", "s", "/", "w", "a", "t", "c", "h", "/">>)
  THEN LET pm == RegexSearch(VideoIdPattern, normalizedUrl) IN
       IF pm.ok THEN pm.caps[1] ELSE path
  ELSE path

\* variant: a URL that nothing matches is classified generic
parseFediverseUrlLoose(url) ==
  LET normalizedUrl == Trim(url)
      known == FirstPlatformMatch(PlatformOrder, 1, normalizedUrl)
  IN IF known # Null THEN known
     ELSE ParsedUrl("generic", <<>>, normalizedUrl, normalizedUrl, Undefined)

\* parseFediverseUrl: the first matching pattern in registry order, else the generic
\* shape, else null
parseFediverseUrl(url) ==
  LET normalizedUrl == Trim(url)
      known == FirstPlatformMatch(PlatformOrder, 1, normalizedUrl)
  IN IF known # Null THEN known
     ELSE LET genericMatch == RegexMatchAnchored(GenericFallbackPattern, normalizedUrl) IN
          IF genericMatch.ok
          THEN ParsedUrl("generic", genericMatch.caps[1],
                         GenericFallbackId(genericMatch.caps[2], normalizedUrl),
                         normalizedUrl, Undefined)
          ELSE Null

(***************************************************************************)
(* FediverseClient.getSupportedPlatforms: the documented example URLs.     *)
(***************************************************************************)
getSupportedPlatforms == <<
  [name |-> "Mastodon", examples |-> <<
     <<"h", "t", "t", "p", "s", ":", "/", "/", "m", "a", "s", "t", "o", "d", "o", "n", ".", "s", "o", "c", "i", "a", "l", "/", "@", "u", "s", "e", "r", "n", "a", "m", "e", "/", "1", "2", "3", "4", "5", "6", "7", "8", "9", "0">>,
     <<"h", "t", "t", "p", "s", ":", "/", "/", "m", "a", "s", "t", "o", "d", "o", "n", ".", "o", "n", "l", "i", "n", "e", "/", "u", "s", "e", "r", "s", "/", "u", "s", "e", "r", "n", "a", "m", "e", "/", "s", "t", "a", "t", "u", "s", "e", "s", "/", "1", "2", "3", "4", "5", "6", "7", "8", "9", "0">> >>],
  [name |-> "Pixelfed", examples |-> <<
     <<"h", "t", "t", "p", "s", ":", "/", "/", "p", "i", "x", "e", "l", "f", "e", "d", ".", "s", "o", "c", "i", "a", "l", "/", "p", "/", "u", "s", "e", "r", "n", "a", "m", "e", "/", "1", "2", "3", "4", "5", "6", "7", "8", "9", "0">>,
     <<"h", "t", "t", "p", "s", ":", "/", "/", "p", "i", "x", "e", "l", "f", "e", "d", ".", "s", "o", "c", "i", "a", "l", "/", "@", "u", "s", "e", "r", "n", "a", "m", "e", "/", "p", "/", "1", "2", "3", "4", "5", "6", "7", "8", "9", "0">> >>],
  [name |-> "PeerTube", examples |-> <<
     <<"h", "t", "t", "p", "s", ":", "/", "/", "p", "e", "e", "r", "t", "u", "b", "e", ".", "t", "v", "/", "v", "i", "d", "e", "o", "s", "/", "w", "a", "t", "c", "h", "/", "a", "b", "c", "1", "2", "3", "-", "d", "e", "f", "4", "5", "6">> >>],
  [name |-> "Pleroma", examples |-> <<
     <<"h", "t", "t", "p", "s", ":", "/", "/", "p", "l", "e", "r", "o", "m", "a", ".", "s", "i", "t", "e", "/", "o", "b", "j", "e", "c", "t", "s", "/", "a", "b", "c", "1", "2", "3", "-", "d", "e", "f", "4", "5", "6">>,
     <<"h", "t", "t", "p", "s", ":", "/", "/", "p", "l", "e", "r", "o", "m", "a", ".", "s", "i", "t", "e", "/", "n", "o", "t", "i", "c", "e", "/", "a", "b", "c", "1", "2", "3">> >>],
  [name |-> "Misskey", examples |-> <<
     <<"h", "t", "t", "p", "s", ":", "/", "/", "m", "i", "s", "s", "k", "e", "y", ".", "i", "o", "/", "n", "o", "t", "e", "s", "/", "a", "b", "c", "1", "2", "3", "d", "e", "f", "4", "5", "6">> >>],
  [name |-> "Ech0", examples |-> <<
     <<"h", "t", "t", "p", "s", ":", "/", "/", "y", "o", "u", "r", "-", "e", "c", "h", "0", "-", "i", "n", "s", "t", "a", "n", "c", "e", ".", "c", "o", "m", "/", "p", "o", "s", "t", "s", "/", "p", "o", "s", "t", "1", "2", "3">>,
     <<"h", "t", "t", "p", "s", ":", "/", "/", "y", "o", "u", "r", "-", "e", "c", "h", "0", "-", "i", "n", "s", "t", "a", "n", "c", "e", ".", "c", "o", "m", "/", "o", "b", "j", "e", "c", "t", "s", "/", "a", "b", "c", "1", "2", "3", "-", "d", "e", "f", "4", "5", "6">> >>] >>

\* the example URLs, each with the registry key of the platform it is listed under
ExampleUrls ==
  UNION { {[url |-> getSupportedPlatforms[i].examples[j],
            platform |-> CHOOSE key \in DOMAIN SUPPORTED_PLATFORMS :
                          SUPPORTED_PLATFORMS[key].name = getSupportedPlatforms[i].name] :
             j \in 1..Len(getSupportedPlatforms[i].examples)} :
           i \in 1..Len(getSupportedPlatforms)}

(***************************************************************************)
(* URL strings offered to parseFediverseUrl.                               *)
(***************************************************************************)
SamplePaths == {
  <<"/", "@", "a", "l", "i", "c", "e", "/", "1", "2", "3">>, <<"/", "@", "a", "l", "i", "c", "e", "/", "1", "2", "3", "/", "e", "m", "b", "e", "d">>, <<"/", "@", "a", "l", "i", "c", "e", "/", "1", "2", "a">>, <<"/", "@", "a", "l", "i", "c", "e">>,
  <<"/", "u", "s", "e", "r", "s", "/", "a", "l", "i", "c", "e", "/", "s", "t", "a", "t", "u", "s", "e", "s", "/", "1", "2", "3">>, <<"/", "@", "a", "l", "i", "c", "e", "/", "s", "t", "a", "t", "u", "s", "e", "s", "/", "9", "f", "-", "a">>,
  <<"/", "p", "/", "a", "l", "i", "c", "e", "/", "7", "7">>, <<"/", "@", "a", "l", "i", "c", "e", "/", "p", "/", "7", "7">>, <<"/", "i", "/", "w", "e", "b", "/", "p", "o", "s", "t", "/", "7", "7">>,
  <<"/", "v", "i", "d", "e", "o", "s", "/", "w", "a", "t", "c", "h", "/", "9", "f", "-", "a">>, <<"/", "w", "/", "9", "f", "-", "a">>, <<"/", "w", "/", "a", "_", "b">>,
  <<"/", "v", "i", "d", "e", "o", "s", "/", "w", "a", "t", "c", "h", "/", "p", "l", "a", "y", "l", "i", "s", "t", "/", "p", "l", "1", "/", "v", "i", "d", "e", "o", "/", "9", "f", "-", "a">>, <<"/", "v", "i", "d", "e", "o", "/", "w", "a", "t", "c", "h", "/", "9", "f", "-", "a">>,
  <<"/", "o", "b", "j", "e", "c", "t", "s", "/", "9", "f", "-", "a">>, <<"/", "o", "b", "j", "e", "c", "t", "s", "/", "1", "2", "3">>, <<"/", "o", "b", "j", "e", "c", "t", "s", "/", "9", "g", "_", "z">>, <<"/", "n", "o", "t", "i", "c", "e", "/", "A", "z", "9">>,
  <<"/", "n", "o", "t", "e", "s", "/", "9", "x", "y", "z">>, <<"/", "n", "o", "t", "e", "s", "/", "9", "x", "-", "z">>, <<"/", "e", "c", "h", "o", "/", "5">>, <<"/", "p", "o", "s", "t", "s", "/", "5">>, <<"/", "p", "o", "s", "t", "s", "/", "p", "_", "1">>,
  <<"/", "s", "t", "a", "t", "u", "s", "e", "s", "/", "1", "2", "3">>, <<"/", "t", "o", "t", "a", "l", "l", "y", "/", "u", "n", "r", "e", "l", "a", "t", "e", "d", "/", "p", "a", "t", "h">>, <<"/", "a", "b", "o", "u", "t">>, <<"/">>, <<>>,
  <<"/", "@", "a", "l", "i", "c", "e", "/", "1", "2", "3", "?", "x", "=", "1">>, <<"/", "o", "b", "j", "e", "c", "t", "s", "/", "a", ".", "b", "/", "c">> }

OddSamples == {
  <<>>, <<"n", "o", "t", " ", "a", " ", "u", "r", "l">>, <<" ", "h", "t", "t", "p", "s", ":", "/", "/", "m", ".", "s", "/", "@", "a", "l", "i", "c", "e", "/", "1", "2", "3", " ">>,
  <<"h", "t", "t", "p", "s", ":", "/", "/", "m", "a", "s", "t", "o", "d", "o", "n", ".", "s", "o", "c", "i", "a", "l", "/", "@", "a", "l", "i", "c", "e", "/", "1", "2", "3", "4", "5", "6", "7", "8", "9">>,
  <<"h", "t", "t", "p", "s", ":", "/", "/", "e", "x", "a", "m", "p", "l", "e", ".", "c", "o", "m", "/", "t", "o", "t", "a", "l", "l", "y", "/", "u", "n", "r", "e", "l", "a", "t", "e", "d", "/", "p", "a", "t", "h">>,
  <<"h", "t", "t", "p", "s", ":", "/", "/", "g", "i", "t", "h", "u", "b", ".", "c", "o", "m", "/", "l", "i", "n", "-", "s", "n", "o", "w", "/", "E", "c", "h", "0">> }

ParseSamples ==
  {sc \o h \o p : sc \in { <<"h", "t", "t", "p", "s", ":", "/", "/">>, <<"h", "t", "t", "p", ":", "/", "/">>, <<"f", "t", "p", ":", "/", "/">> },
                  h \in { <<"m", ".", "s">>, <<"f", "e", "d", "i", "b", "o", "x", ".", "c", "o", "m">> }, p \in SamplePaths}
    \cup OddSamples \cup {e.url : e \in ExampleUrls}

(***************************************************************************)
(* Specification of parseFediverseUrl: a URL is chosen, then parsed.       *)
(***************************************************************************)
NotCalled == [notCalled |-> TRUE]

CacheIdle == [op |-> "new", key |-> <<>>, ret |-> Null, before |-> {}]

InitParse ==
  /\ parseIn \in ParseSamples
  /\ parseOut = NotCalled
  /\ cache = <<>> /\ now = 0 /\ calls = <<>> /\ inputs = {}
  /\ recency = <<>> /\ lastOp = CacheIdle

ParseCall ==
  /\ parseOut = NotCalled
  /\ parseOut' = parseFediverseUrl(parseIn)
  /\ UNCHANGED <<parseIn, cache, now, calls, inputs, recency, lastOp>>

ParseChoose ==
  /\ parseOut # NotCalled
  /\ parseIn' \in ParseSamples
  /\ parseOut' = NotCalled
  /\ UNCHANGED <<cache, now, calls, inputs, recency, lastOp>>

NextParse == ParseCall \/ ParseChoose

SpecParse == InitParse /\ [][NextParse]_vars

(***************************************************************************)
(* Specification of one LRUCache instance used through its methods         *)
(* (fediverseApiCache, with the clean-up timer of apiCache.ts).            *)
(***************************************************************************)
CacheKeys == {[j \in 1..i |-> "k"] : i \in 1..NumKeys}

CacheValues == {[success |-> TRUE, platform |-> "mastodon"]}

CustomTTLs == {0}

Touch(r, key) == Append(SelectSeq(r, LAMBDA k : k # key), key)

Restrict(r, keys) == SelectSeq(r, LAMBDA k : k \in keys)

\* the history after an operation on key: an access moves the key to the end
RecencyAfter(r, key, accessed, newCache) ==
  Restrict(IF accessed THEN Touch(r, key) ELSE r, MapKeys(newCache))

InitCache ==
  /\ cache = <<>> /\ now = 0 /\ recency = <<>> /\ lastOp = CacheIdle
  /\ calls = <<>> /\ inputs = {} /\ parseIn = <<>> /\ parseOut = NotCalled

OpSet(key, data) ==
  /\ cache' = LRUSet(cache, key, data, now)
  /\ recency' = RecencyAfter(recency, key, TRUE, cache')
  /\ lastOp' = [op |-> "set", key |-> key, ret |-> Null,
              before |-> MapKeys(cache)]
  /\ UNCHANGED <<now, calls, inputs, parseIn, parseOut>>

OpSetWithCustomTTL(key, data, ttlTicks) ==
  /\ cache' = LRUSetWithCustomTTL(cache, key, data, ttlTicks, now)
  /\ recency' = RecencyAfter(recency, key, TRUE, cache')
  /\ lastOp' = [op |-> "setWithCustomTTL", key |-> key, ret |-> Null,
              before |-> MapKeys(cache)]
  /\ UNCHANGED <<now, calls, inputs, parseIn, parseOut>>

OpGet(key) ==
  LET r == LRUGet(cache, key, now) IN
  /\ cache' = r.cache
  /\ recency' = RecencyAfter(recency, key, r.ret # Null, cache')
  /\ lastOp' = [op |-> "get", key |-> key, ret |-> r.ret,
              before |-> MapKeys(cache)]
  /\ UNCHANGED <<now, calls, inputs, parseIn, parseOut>>

OpHas(key) ==
  LET r == LRUHas(cache, key, now) IN
  /\ cache' = r.cache
  /\ recency' = RecencyAfter(recency, key, r.ret, cache')
  /\ lastOp' = [op |-> "has", key |-> key, ret |-> [bool |-> r.ret],
              before |-> MapKeys(cache)]
  /\ UNCHANGED <<now, calls, inputs, parseIn, parseOut>>

OpDelete(key) ==
  LET r == LRUDelete(cache, key) IN
  /\ cache' = r.cache
  /\ recency' = RecencyAfter(recency, key, FALSE, cache')
  /\ lastOp' = [op |-> "delete", key |-> key, ret |-> [bool |-> r.ret],
              before |-> MapKeys(cache)]
  /\ UNCHANGED <<now, calls, inputs, parseIn, parseOut>>

OpClear ==
  /\ cache' = LRUClear(cache)
  /\ recency' = <<>>
  /\ lastOp' = [op |-> "clear", key |-> <<>>, ret |-> Null,
              before |-> MapKeys(cache)]
  /\ UNCHANGED <<now, calls, inputs, parseIn, parseOut>>

\* the setInterval callback of apiCache.ts
OpCleanup ==
  /\ cache' = LRUCleanup(cache, now)
  /\ recency' = Restrict(recency, MapKeys(cache'))
  /\ lastOp' = [op |-> "cleanup", key |-> <<>>, ret |-> Null,
              before |-> MapKeys(cache)]
  /\ UNCHANGED <<now, calls, inputs, parseIn, parseOut>>

\* Date.now() advances
Tick ==
  /\ now < MaxTime
  /\ now' = now + 1
  /\ UNCHANGED <<cache, calls, inputs, recency, lastOp, parseIn, parseOut>>

NextCache ==
  \/ \E key \in CacheKeys, data \in CacheValues : OpSet(key, data)
  \/ \E key \in CacheKeys, data \in CacheValues, t \in CustomTTLs :
       OpSetWithCustomTTL(key, data, t)
  \/ \E key \in CacheKeys : OpGet(key)
  \/ \E key \in CacheKeys : OpHas(key)
  \/ \E key \in CacheKeys : OpDelete(key)
  \/ OpClear
  \/ OpCleanup
  \/ Tick

SpecCache == InitCache /\ [][NextCache]_vars

(***************************************************************************)
(* Values handed to fetchPost.  A string is the tuple of its characters;   *)
(* a value that is not a string is a one-element tuple naming its type.    *)
(***************************************************************************)
NullArg == <<"null">>

NumberArg == <<"number">>

IsString(v) == v \notin {NullArg, NumberArg, Undefined}

\* new URL(url): a scheme is required, and a special scheme requires a host free of
\* forbidden code points (leading and trailing white space is stripped first)
SchemePattern == <<Plus("[a-zA-Z0-9+.-]"), Lit(<<":">>)>>

SpecialSchemes == { <<"h", "t", "t", "p", ":">>, <<"h", "t", "t", "p", "s", ":">>, <<"f", "t", "p", ":">> }

RECURSIVE SkipSlashes(_, _)
SkipSlashes(s, pos) ==
  IF pos <= Len(s) /\ s[pos] \in {"/", "\\"} THEN SkipSlashes(s, pos + 1) ELSE pos

RECURSIVE HostEnd(_, _)
HostEnd(s, pos) ==
  IF pos <= Len(s) /\ s[pos] \notin {"/", "\\", "?", "#"} THEN HostEnd(s, pos + 1) ELSE pos

ForbiddenHostCodePoint == {" ", "<", ">", "[", "]", "^", "|", "%", "@"}

IsValidUrl(url) ==
  LET s == Trim(url)
      low == ToLowerCase(s)
  IN /\ Len(s) > 0
     /\ s[1] \in Lower \cup Upper
     /\ RegexMatchAnchored(SchemePattern, s).ok
     /\ \A sch \in SpecialSchemes :
          StartsWith(low, sch) =>
            LET from == SkipSlashes(s, Len(sch) + 1)
                to == HostEnd(s, from)
            IN /\ to > from
               /\ \A j \in from..(to - 1) : s[j] \notin ForbiddenHostCodePoint

\* obviousNonFediversePatterns of fetchPost
obviousNonFediversePatterns == <<
  <<"g", "i", "t", "h", "u", "b", ".", "c", "o", "m">>, <<"g", "i", "t", "l", "a", "b", ".", "c", "o", "m">>, <<"b", "i", "t", "b", "u", "c", "k", "e", "t", ".", "o", "r", "g">>, <<"s", "t", "a", "c", "k", "o", "v", "e", "r", "f", "l", "o", "w", ".", "c", "o", "m">>,
  <<"r", "e", "d", "d", "i", "t", ".", "c", "o", "m">>, <<"t", "w", "i", "t", "t", "e", "r", ".", "c", "o", "m">>, <<"x", ".", "c", "o", "m">>, <<"f", "a", "c", "e", "b", "o", "o", "k", ".", "c", "o", "m">>, <<"i", "n", "s", "t", "a", "g", "r", "a", "m", ".", "c", "o", "m">>,
  <<"l", "i", "n", "k", "e", "d", "i", "n", ".", "c", "o", "m">>, <<"y", "o", "u", "t", "u", "b", "e", ".", "c", "o", "m">>, <<"y", "o", "u", "t", "u", ".", "b", "e">> >>

\* a dot of a pattern written \. matches a dot only
IsObviouslyNotFediverse(url) ==
  \E i \in 1..Len(obviousNonFediversePatterns) :
    RegexTestLiteral(obviousNonFediversePatterns[i], ToLowerCase(url))

(***************************************************************************)
(* FetchPostResult and ErrorCode.                                          *)
(***************************************************************************)
ErrorCode == {"INVALID_URL", "UNSUPPORTED_PLATFORM", "NETWORK_ERROR", "RATE_LIMITED",
              "NOT_FOUND", "PRIVATE_POST", "SERVER_ERROR", "CORS_ERROR", "PARSE_ERROR"}

Absent == "undefined"

Failure(errorCode, error) ==
  [success |-> FALSE, data |-> Null, error |-> error, errorCode |-> errorCode,
   platform |-> Absent]

\* data.platform, data.account.platform and data.account.acct are all of the post that
\* the model keeps
Success(platform, dataPlatform, accountPlatform, acct) ==
  [success |-> TRUE,
   data |-> [platform |-> dataPlatform,
             account |-> [platform |-> accountPlatform, acct |-> acct]],
   error |-> Absent, errorCode |-> Absent, platform |-> platform]

\* convertActivityPubToUniversal(data, parsed.domain) tags the post with the domain
DomainTag == "{domain}"

(***************************************************************************)
(* The network: what one outbound request is answered with.                *)
(*   net = FALSE: fetch() rejects.   ctype: the content-type header.       *)
(*   body: "unparsable", "other" (valid JSON of another shape), "post"     *)
(*   (the JSON the endpoint documents, by a remote author), "post_local"   *)
(*   (the same by an author of the instance), the kinds of ActivityPub     *)
(*   object                                                                *)
(*   "note" (actor embedded), "note_ref" (attributedTo is a URL string),   *)
(*   "create_ref", "create_obj", and for HTML "plain" or "ld" (a page that *)
(*   embeds a Note as JSON-LD).                                            *)
(***************************************************************************)
Response(net, status, ctype, body) ==
  [net |-> net, status |-> status, ctype |-> ctype, body |-> body]

NetFail == Response(FALSE, 0, "", "")

Responses ==
  {NetFail}
    \cup {Response(TRUE, st, "html", "plain") : st \in {401, 403, 404, 429, 500}}
    \cup {Response(TRUE, 200, "json", b) :
            b \in {"unparsable", "other", "post", "post_local", "note", "note_ref", "create_ref", "create_obj"}}
    \cup {Response(TRUE, 200, "html", b) : b \in {"plain", "ld"}}

\* response.ok
Ok(r) == r.status >= 200 /\ r.status <= 299

\* await response.json() of a REST endpoint: throws, or yields a post or something else
JsonOf(r) ==
  IF r.ctype = "html" \/ r.body = "unparsable" THEN "throws"
  ELSE IF r.body \in {"post", "post_local"} THEN "post" ELSE "other"

\* the ActivityPub object a JSON body holds: "anon" has no attributedTo, "malformed"
\* makes the normalizer throw
ApKindOf(r) ==
  IF r.body \in {"note", "note_ref", "create_ref", "create_obj"} THEN r.body
  ELSE IF r.body \in {"post", "post_local"} THEN "anon" ELSE "malformed"

\* account.acct as the normalizers set it from a body or an object of the given kind:
\* convertMastodonToUniversal copies account.acct, which a Mastodon-compatible API gives
\* without a domain for an author of the instance; convertActivityPubToUniversal builds
\* name@host from the actor, and leaves '' when the object has no attributedTo
AcctOf(kind) ==
  CASE kind = "post" -> <<"a", "l", "i", "c", "e", "@", "r", ".", "e", "x", "a", "m", "p", "l", "e">>
    [] kind = "post_local" -> <<"a", "l", "i", "c", "e">>
    [] kind \in {"note", "note_ref"} -> <<"b", "o", "b", "@", "a", ".", "e", "x", "a", "m", "p", "l", "e">>
    [] OTHER -> <<>>

Request(method, url, accept) == [method |-> method, url |-> url, accept |-> accept]

(***************************************************************************)
(* One invocation of fetchPost.                                            *)
(*   pc: "idle", "await" (a request is pending), "done", "rejected"        *)
(*   stage, idx: the await the invocation is suspended at                  *)
(*   parsed: the local of that name, the result of parseFediverseUrl       *)
(*   first: inside the first attempt of the generic dispatch               *)
(*   held: the data a fetcher holds across a later request                 *)
(*   reqs: the outbound requests issued so far by this invocation          *)
(*   lookup: what postCache.get found: "hit", "miss" or "stale"            *)
(*   status: the HTTP status of the answer to the status-API request of    *)
(*           fetchMastodonPost or fetchPleromaPost (0 before it)           *)
(*   built: after fetchActivityPubObject requested the object of a Create, *)
(*          what it handed to the normalizer: "referenced" or "wrapper"    *)
(***************************************************************************)
IdleCall ==
  [pc |-> "idle", url |-> <<>>, stage |-> "", idx |-> 0, first |-> FALSE,
   held |-> "", reqs |-> <<>>, result |-> Null, parsed |-> Null,
   lookup |-> "", status |-> 0, built |-> ""]

Await(c, stage, idx, req) ==
  [c EXCEPT !.pc = "await", !.stage = stage, !.idx = idx, !.reqs = Append(@, req)]

Returned(c, result) ==
  [c EXCEPT !.pc = "done", !.stage = "", !.idx = 0, !.held = "", !.first = FALSE,
            !.result = result]

Rejected(c) == [c EXCEPT !.pc = "rejected", !.result = Null]

ApAccept == "application/activity+json, application/ld+json"

\* possibleUrls of fetchActivityPubObject
ApCandidates(id) ==
  (IF StartsWith(id, <<"h", "t", "t", "p">>) THEN <<"{id}">> ELSE <<>>)
    \o <<"https://{domain}/objects/{id}", "https://{domain}/p/{id}",
         "https://{domain}/notes/{id}", "https://{domain}/statuses/{id}">>

\* possibleUrls of fetchPixelfedActivityPub
PixelfedCandidates ==
  <<"https://{domain}/p/{username}/{id}", "https://{domain}/objects/{id}",
    "https://{domain}/p/{id}", "https://{domain}/statuses/{id}">>

\* possibleUrls of fetchEch0Post
Ech0Candidates(id) ==
  (IF StartsWith(id, <<"h", "t", "t", "p">>) THEN <<"{id}">> ELSE <<>>)
    \o <<"https://{domain}/echo/{id}", "https://{domain}/objects/{id}",
         "https://{domain}/posts/{id}", "https://{domain}/notes/{id}",
         "https://{domain}/statuses/{id}">>

\* variant: the exhausted candidate list is reported as a CORS error
ApNotFoundCors ==
  Failure("CORS_ERROR", "Unable to find ActivityPub data at this URL.")

\* fetchActivityPubObject when no candidate yields data
ApNotFound ==
  Failure("NOT_FOUND", "Unable to find ActivityPub data at this URL. This might not be a valid Fediverse post URL, or the instance may not be properly configured for ActivityPub.")

\* the catch of fetchActivityPubObject, with the message of the error caught
ApServerError(message) ==
  Failure("SERVER_ERROR", "Failed to fetch ActivityPub data: " \o message)

\* the generic dispatch of fetchPost runs fetchActivityPubObject after a failed first attempt
RECURSIVE FetcherReturns(_, _)
RECURSIVE ApTry(_, _)

\* fetchActivityPubObject: the i-th candidate is requested, or the list is exhausted
ApTry(c, i) ==
  LET urls == ApCandidates(c.parsed.id) IN
  IF i <= Len(urls)
  THEN Await(c, "ap.candidate", i, Request("GET", urls[i], ApAccept))
  ELSE FetcherReturns(c, ApNotFound)

fetchActivityPubObject(c) == ApTry([c EXCEPT !.built = ""], 1)

FetcherReturns(c, result) ==
  IF c.first /\ ~result.success
  THEN fetchActivityPubObject([c EXCEPT !.first = FALSE, !.held = ""])
  ELSE Returned(c, result)

StatusRequest(platform) ==
  Request(SUPPORTED_PLATFORMS[platform].statusMethod,
          "https://{domain}" \o SUPPORTED_PLATFORMS[platform].statusPath,
          "application/json, application/activity+json")

fetchMastodonPost(c) == Await(c, "mastodon.status", 0, StatusRequest("mastodon"))

fetchPleromaPost(c) == Await(c, "pleroma.status", 0, StatusRequest("pleroma"))

fetchPixelfedPost(c) ==
  Await(c, "pixelfed.v2", 0,
        Request("GET", "https://{domain}/api/v2/statuses/{id}",
                "application/json, application/activity+json"))

fetchMisskeyPost(c) == Await(c, "misskey.note", 0, StatusRequest("misskey"))

fetchPeerTubePost(c) == Await(c, "peertube.video", 0, StatusRequest("peertube"))

PixelfedTry(c, i) ==
  IF i <= Len(PixelfedCandidates)
  THEN Await(c, "pixelfed.ap", i, Request("GET", PixelfedCandidates[i], ApAccept))
  ELSE FetcherReturns(c, Failure("PRIVATE_POST", "Unable to fetch Pixelfed post. This Pixelfed instance may require authentication or have public access restrictions."))

fetchPixelfedActivityPub(c) == PixelfedTry(c, 1)

Ech0Try(c, i) ==
  LET urls == Ech0Candidates(c.parsed.id) IN
  IF i <= Len(urls)
  THEN Await(c, "ech0.ap", i, Request("GET", urls[i], ApAccept))
  ELSE FetcherReturns(c, Failure("NOT_FOUND", "Unable to find ActivityPub data for this Ech0 instance. This instance may not be properly configured for federation."))

fetchEch0Post(c) == Ech0Try(c, 1)

ActorRequest == Request("GET", "{attributedTo}", "application/activity+json, application/ld+json, application/json")

\* convertActivityPubToUniversal on an object of the given kind, for the fetcher that
\* calls it: throws on a malformed object, fetches the actor when attributedTo is a
\* string, and otherwise completes at once
AfterConvert(c, who, kind) ==
  CASE who = "ap" -> FetcherReturns(c, Success("generic", DomainTag, DomainTag, AcctOf(kind)))
    [] who = "pixelfed" ->
         FetcherReturns(c, Success("pixelfed", "pixelfed", DomainTag, AcctOf(kind)))
    [] who = "ech0" ->
         IF kind = "note_ref"
         THEN Await(c, "ech0.webfinger", 0,
                    Request("GET", "https://{actorDomain}/.well-known/webfinger?resource=acct:{acct}", "*/*"))
         ELSE FetcherReturns(c, Success("ech0", "ech0", DomainTag, AcctOf(kind)))

ConvertActivityPub(c, who, kind) ==
  CASE kind = "malformed" ->
         (CASE who = "ap" -> FetcherReturns(c, ApServerError("Failed to convert ActivityPub data to universal format"))
            [] who = "pixelfed" -> FetcherReturns(c, Failure("SERVER_ERROR", "Failed to fetch Pixelfed post: Failed to convert ActivityPub data to universal format"))
            [] who = "ech0" -> fetchActivityPubObject([c EXCEPT !.held = ""]))
    [] kind = "note_ref" -> Await([c EXCEPT !.held = kind], who \o ".actor", 0, ActorRequest)
    [] OTHER -> AfterConvert(c, who, kind)

(***************************************************************************)
(* The continuations: what a fetcher does with the answer to the request   *)
(* it is suspended at, up to its next request or its return.               *)
(***************************************************************************)
\* variant: a status outside the mapped ones is reported without the ActivityPub fallback
OnMastodonStatusNoFallback(c, r) ==
  IF ~r.net THEN fetchActivityPubObject(c)
  ELSE IF ~Ok(r) THEN FetcherReturns(c, Failure("SERVER_ERROR", "HTTP error"))
  ELSE IF JsonOf(r) = "post"
    THEN FetcherReturns(c, Success("mastodon", "mastodon", "mastodon", AcctOf(r.body)))
  ELSE fetchActivityPubObject(c)

\* fetchMastodonPost after the status request
OnMastodonStatus(c, r) ==
  IF ~r.net THEN fetchActivityPubObject(c)
  ELSE IF r.status = 404
    THEN FetcherReturns(c, Failure("NOT_FOUND", "Post not found or deleted"))
  ELSE IF r.status = 401 \/ r.status = 403
    THEN FetcherReturns(c, Failure("PRIVATE_POST", "This post is private or requires authentication"))
  ELSE IF r.status = 429
    THEN FetcherReturns(c, Failure("RATE_LIMITED", "Too many requests. Please wait before trying again"))
  ELSE IF ~Ok(r) THEN fetchActivityPubObject(c)
  ELSE IF JsonOf(r) = "throws"
    THEN FetcherReturns(c, Failure("PARSE_ERROR", "Failed to parse response from server"))
  ELSE IF JsonOf(r) = "other" THEN fetchActivityPubObject(c)
  ELSE FetcherReturns(c, Success("mastodon", "mastodon", "mastodon", AcctOf(r.body)))

\* fetchPleromaPost after the status request
OnPleromaStatus(c, r) ==
  IF ~r.net \/ ~Ok(r) THEN fetchActivityPubObject(c)
  ELSE IF JsonOf(r) = "post"
    THEN FetcherReturns(c, Success("pleroma", "pleroma", "mastodon", AcctOf(r.body)))
  ELSE fetchActivityPubObject(c)

\* fetchPixelfedPost after the v2 request and after the v1 request
OnPixelfedApi(c, r) ==
  IF ~r.net THEN fetchPixelfedActivityPub(c)
  ELSE IF ~Ok(r)
    THEN IF c.stage = "pixelfed.v2"
         THEN Await(c, "pixelfed.v1", 0,
                    Request("GET", "https://{domain}/api/v1/statuses/{id}",
                            "application/json, application/activity+json"))
         ELSE fetchPixelfedActivityPub(c)
  ELSE IF JsonOf(r) = "post"
    THEN FetcherReturns(c, Success("pixelfed", "pixelfed", "mastodon", AcctOf(r.body)))
  ELSE fetchPixelfedActivityPub(c)

\* fetchMisskeyPost after the note request: the emoji directory is requested next
OnMisskeyNote(c, r) ==
  IF ~r.net \/ ~Ok(r) \/ JsonOf(r) = "throws" THEN fetchActivityPubObject(c)
  ELSE Await([c EXCEPT !.held = JsonOf(r)], "misskey.emoji", 0,
             Request("POST", "https://{domain}/api/emojis", "*/*"))

\* fetchMisskeyPost after the emoji request, whatever its answer
OnMisskeyEmoji(c, r) ==
  IF c.held = "post"
  THEN FetcherReturns(c, Success("misskey", "misskey", "misskey",
                                 <<"c", "a", "r", "o", "l", "@">> \o c.parsed.domain))
  ELSE fetchActivityPubObject([c EXCEPT !.held = ""])

\* fetchPeerTubePost after the video request
OnPeerTubeVideo(c, r) ==
  IF r.net /\ Ok(r) /\ JsonOf(r) = "post"
  THEN FetcherReturns(c, Success("peertube", "peertube", "peertube",
                                 <<"d", "a", "v", "e", "@">> \o c.parsed.domain))
  ELSE fetchActivityPubObject(c)

\* an object of kind Create is normalized as it stands where it is not dereferenced:
\* it names its author as actor and has no attributedTo
AsNormalized(kind) == IF kind \in {"create_ref", "create_obj"} THEN "anon" ELSE kind

\* fetchActivityPubObject after the request of the i-th candidate
OnApCandidate(c, r) ==
  IF r.net /\ Ok(r) /\ r.ctype = "json" /\ r.body # "unparsable"
  THEN LET kind == ApKindOf(r) IN
       IF kind = "create_ref"
       THEN Await(c, "ap.deref", 0, Request("GET", "{object}", "application/activity+json"))
       ELSE ConvertActivityPub(c, "ap", IF kind = "create_obj" THEN "note" ELSE kind)
  ELSE ApTry(c, c.idx + 1)

\* fetchActivityPubObject after the request of the object of a Create activity
OnApDeref(c, r) ==
  IF ~r.net THEN FetcherReturns(c, ApServerError("fetch failed"))
  ELSE IF ~Ok(r)
    THEN ConvertActivityPub([c EXCEPT !.built = "wrapper"], "ap", AsNormalized("create_ref"))
  ELSE IF JsonOf(r) = "throws" THEN FetcherReturns(c, ApServerError("Unexpected token"))
  ELSE ConvertActivityPub([c EXCEPT !.built = "referenced"], "ap", AsNormalized(ApKindOf(r)))

\* convertActivityPubToUniversal after fetchUserObject, whatever its answer
OnActor(c, who, r) == AfterConvert([c EXCEPT !.held = ""], who, c.held)

\* the loop body of fetchPixelfedActivityPub and of fetchEch0Post, after the request
\* with the ActivityPub Accept header
OnLoopAp(c, who, r) ==
  LET next == IF who = "pixelfed" THEN PixelfedTry(c, c.idx + 1) ELSE Ech0Try(c, c.idx + 1)
      page == Await(c, who \o ".page", c.idx, Request("GET", c.reqs[Len(c.reqs)].url, "*/*"))
  IN IF ~r.net THEN next
     ELSE IF Ok(r) /\ r.ctype = "json"
       THEN IF r.body = "unparsable" THEN next
            ELSE IF r.body \in {"note", "note_ref", "create_ref", "create_obj"}
              THEN ConvertActivityPub(c, who, AsNormalized(r.body))
            ELSE page
     ELSE page

\* the same loop body after the plain request of the page
OnLoopPage(c, who, r) ==
  IF r.net /\ Ok(r) /\ r.body = "ld"
  THEN ConvertActivityPub(c, who, "note")
  ELSE IF who = "pixelfed" THEN PixelfedTry(c, c.idx + 1) ELSE Ech0Try(c, c.idx + 1)

\* resolveAccount after the WebFinger request
OnEch0Webfinger(c, r) ==
  IF r.net /\ Ok(r) /\ JsonOf(r) = "post"
  THEN Await(c, "ech0.wfactor", 0, Request("GET", "{selfLink}", "application/activity+json"))
  ELSE FetcherReturns(c, Success("ech0", "ech0", DomainTag, AcctOf("note_ref")))

\* resolveAccount after the actor request
OnEch0WfActor(c, r) ==
  IF r.net /\ Ok(r) /\ JsonOf(r) # "throws"
  THEN FetcherReturns(c, Success("ech0", "ech0", "ech0", AcctOf("note_ref")))
  ELSE FetcherReturns(c, Success("ech0", "ech0", DomainTag, AcctOf("note_ref")))

OnResponse(c, r) ==
  CASE c.stage = "mastodon.status" -> OnMastodonStatus(c, r)
    [] c.stage = "pleroma.status" -> OnPleromaStatus(c, r)
    [] c.stage \in {"pixelfed.v2", "pixelfed.v1"} -> OnPixelfedApi(c, r)
    [] c.stage = "misskey.note" -> OnMisskeyNote(c, r)
    [] c.stage = "misskey.emoji" -> OnMisskeyEmoji(c, r)
    [] c.stage = "peertube.video" -> OnPeerTubeVideo(c, r)
    [] c.stage = "ap.candidate" -> OnApCandidate(c, r)
    [] c.stage = "ap.deref" -> OnApDeref(c, r)
    [] c.stage = "ap.actor" -> OnActor(c, "ap", r)
    [] c.stage = "pixelfed.actor" -> OnActor(c, "pixelfed", r)
    [] c.stage = "ech0.actor" -> OnActor(c, "ech0", r)
    [] c.stage = "pixelfed.ap" -> OnLoopAp(c, "pixelfed", r)
    [] c.stage = "pixelfed.page" -> OnLoopPage(c, "pixelfed", r)
    [] c.stage = "ech0.ap" -> OnLoopAp(c, "ech0", r)
    [] c.stage = "ech0.page" -> OnLoopPage(c, "ech0", r)
    [] c.stage = "ech0.webfinger" -> OnEch0Webfinger(c, r)
    [] c.stage = "ech0.wfactor" -> OnEch0WfActor(c, r)

(***************************************************************************)
(* FediverseClient.fetchPost.                                              *)
(***************************************************************************)
\* the URL validation: null when the URL passes
ValidateUrl(url) ==
  IF url = <<>> \/ ~IsString(url)
  THEN Failure("INVALID_URL", "Please enter a valid URL")
  ELSE IF ~IsValidUrl(url) THEN Failure("INVALID_URL", "Invalid URL format")
  ELSE Null

\* variant: no URL is on the deny-list
DenyListCheckOff(url) == Null

\* the deny-list: null when the URL passes
DenyListCheck(url) ==
  IF IsObviouslyNotFediverse(url)
  THEN Failure("UNSUPPORTED_PLATFORM", "This URL is from a platform that does not support the ActivityPub protocol")
  ELSE Null

\* the switch on parsed.platform
Dispatch(c, parsed) ==
  CASE parsed.platform = "mastodon" -> fetchMastodonPost(c)
    [] parsed.platform = "pleroma" -> fetchPleromaPost(c)
    [] parsed.platform = "pixelfed" -> fetchPixelfedPost(c)
    [] parsed.platform = "misskey" -> fetchMisskeyPost(c)
    [] parsed.platform = "peertube" -> fetchPeerTubePost(c)
    [] parsed.platform = "ech0" -> fetchEch0Post(c)
    [] parsed.platform = "generic" ->
         IF Includes(parsed.originalUrl, <<"/", "v", "i", "d", "e", "o", "s", "/", "w", "a", "t", "c", "h", "/">>) \/ Includes(parsed.originalUrl, <<"/", "w", "/">>)
         THEN fetchPeerTubePost([c EXCEPT !.first = TRUE])
         ELSE IF Includes(parsed.originalUrl, <<"/", "n", "o", "t", "e", "s", "/">>)
         THEN fetchMisskeyPost([c EXCEPT !.first = TRUE])
         ELSE fetchActivityPubObject(c)
    [] OTHER -> Returned(c, Failure("UNSUPPORTED_PLATFORM", "Unsupported platform"))

\* fetchPost from the cache miss to its first await or its return
AfterCacheMiss(c) ==
  IF ~IsString(c.url) THEN Rejected(c)          \* url.substring is not a function
  ELSE IF ValidateUrl(c.url) # Null THEN Returned(c, ValidateUrl(c.url))
  ELSE IF DenyListCheck(c.url) # Null THEN Returned(c, DenyListCheck(c.url))
  ELSE LET parsed == parseFediverseUrl(c.url) IN
       IF parsed = Null
       THEN Returned(c, Failure("UNSUPPORTED_PLATFORM", "Unsupported URL"))
       ELSE IF parsed.platform \notin DOMAIN SUPPORTED_PLATFORMS
       THEN Returned(c, Failure("UNSUPPORTED_PLATFORM", "Unsupported platform"))
       ELSE Dispatch([c EXCEPT !.parsed = parsed], parsed)

\* variant: every returned result is cached
\* variant: a result is written only when the URL has no entry yet
CacheWriteIfAbsent(c, call, t) ==
  IF call.pc = "done" /\ call.result.success /\ ~MapHas(c, call.url)
  THEN LRUSet(c, call.url, call.result, t)
  ELSE c

CacheWriteAlways(c, call, t) ==
  IF call.pc = "done" THEN LRUSet(c, call.url, call.result, t) ELSE c

\* "Only cache successful results"
CacheWrite(c, call, t) ==
  IF call.pc = "done" /\ call.result.success
  THEN LRUSet(c, call.url, call.result, t)
  ELSE c

(***************************************************************************)
(* The specification of the orchestrator: a caller invokes fetchPost, again *)
(* and again, on a value drawn at the start; servers answer the pending    *)
(* requests; the clock advances.                                           *)
(***************************************************************************)
Callers == {"c1"}

FetchInputs == {
  NullArg, NumberArg, <<>>, <<"n", "o", "t", " ", "a", " ", "u", "r", "l">>,
  <<"h", "t", "t", "p", "s", ":", "/", "/", "g", "i", "t", "h", "u", "b", ".", "c", "o", "m", "/", "l", "i", "n", "-", "s", "n", "o", "w", "/", "E", "c", "h", "0">>,
  <<"h", "t", "t", "p", "s", ":", "/", "/", "y", "o", "u", "t", "u", "b", "e", ".", "c", "o", "m", "/", "w", "/", "9", "f", "-", "a">>,
  <<"h", "t", "t", "p", "s", ":", "/", "/", "l", "i", "n", "u", "x", ".", "c", "o", "m", "m", "u", "n", "i", "t", "y", "/", "@", "a", "/", "1">>,
  <<"h", "t", "t", "p", "s", ":", "/", "/", "m", ".", "s", "/", "a", "b", "o", "u", "t">>,
  <<"h", "t", "t", "p", "s", ":", "/", "/", "m", ".", "s", "/", "@", "a", "l", "i", "c", "e", "/", "1", "2", "3">>,
  <<"h", "t", "t", "p", "s", ":", "/", "/", "m", ".", "s", "/", "n", "o", "t", "i", "c", "e", "/", "A", "z", "9">>,
  <<"h", "t", "t", "p", "s", ":", "/", "/", "m", ".", "s", "/", "p", "/", "a", "l", "i", "c", "e", "/", "7", "7">>,
  <<"h", "t", "t", "p", "s", ":", "/", "/", "m", ".", "s", "/", "n", "o", "t", "e", "s", "/", "9", "x", "y", "z">>,
  <<"h", "t", "t", "p", "s", ":", "/", "/", "m", ".", "s", "/", "w", "/", "9", "f", "-", "a">>,
  <<"h", "t", "t", "p", "s", ":", "/", "/", "m", ".", "s", "/", "e", "c", "h", "o", "/", "5">>,
  <<"h", "t", "t", "p", "s", ":", "/", "/", "m", ".", "s", "/", "s", "t", "a", "t", "u", "s", "e", "s", "/", "1", "2", "3">>,
  <<"h", "t", "t", "p", "s", ":", "/", "/", "m", ".", "s", "/", "w", "/", "a", "_", "b">>,
  <<"h", "t", "t", "p", "s", ":", "/", "/", "m", ".", "s", "/", "n", "o", "t", "e", "s", "/", "a", ".", "b">> }

Init ==
  /\ \E target \in FetchInputs : inputs = {target}
  /\ cache = <<>> /\ now = 0
  /\ calls = [p \in Callers |-> IdleCall]
  /\ recency = <<>> /\ lastOp = CacheIdle
  /\ parseIn = <<>> /\ parseOut = NotCalled

\* fetchPost(url) is invoked and runs to its first await, or returns at once
Call(p, url) ==
  LET got == LRUGet(cache, url, now)
      c0 == [IdleCall EXCEPT !.url = url,
                             !.lookup = IF got.ret # Null THEN "hit"
                                        ELSE IF MapHas(cache, url) THEN "stale" ELSE "miss"]
      c1 == IF got.ret # Null THEN Returned(c0, got.ret) ELSE AfterCacheMiss(c0)
  IN /\ calls[p].pc # "await"
     /\ calls' = [calls EXCEPT ![p] = c1]
     /\ cache' = IF got.ret # Null THEN got.cache ELSE CacheWrite(got.cache, c1, now)
     /\ UNCHANGED <<now, inputs, recency, lastOp, parseIn, parseOut>>

\* the pending request of p is answered and fetchPost runs to its next await or returns
Respond(p, r) ==
  LET seen == IF calls[p].stage \in {"mastodon.status", "pleroma.status"} /\ r.net
              THEN r.status ELSE calls[p].status
      c1 == OnResponse([calls[p] EXCEPT !.status = seen], r)
  IN
  /\ calls[p].pc = "await"
  /\ calls' = [calls EXCEPT ![p] = c1]
  /\ cache' = CacheWrite(cache, c1, now)
  /\ UNCHANGED <<now, inputs, recency, lastOp, parseIn, parseOut>>

\* the cache instance that the module of LRUCache exports: no code of the repository
\* writes to it, and FediverseClient.postCache, held in cache, is another instance
fediverseApiCache == <<>>

\* the callback of the module's setInterval: fediverseApiCache.cleanup()
Sweep ==
  /\ lastOp' = [op |-> "cleanup", key |-> <<>>, ret |-> Null,
                before |-> MapKeys(fediverseApiCache)
                             \ MapKeys(LRUCleanup(fediverseApiCache, now))]
  /\ UNCHANGED <<cache, now, calls, inputs, recency, parseIn, parseOut>>

Next ==
  \/ \E p \in Callers, url \in inputs : Call(p, url)
  \/ \E p \in Callers, r \in Responses : Respond(p, r)
  \/ Tick
  \/ Sweep

Spec == Init /\ [][Next]_vars

\* the same with a clock that keeps advancing, whatever the servers do: no fetch of the
\* program carries a signal or a timeout, so nothing obliges a pending request to end
SpecFair == Spec /\ WF_vars(Tick)

(***************************************************************************)
(* Two invocations of fetchPost in flight at once on the one postCache of  *)
(* the client.  A step is the code between two awaits: postCache.get, and  *)
(* the set after a fetcher returned, run whole inside one step.            *)
(***************************************************************************)
TwoCallers == {"c1", "c2"}

TwoInputs == { <<"h", "t", "t", "p", "s", ":", "/", "/", "m", ".", "s", "/", "@", "a", "l", "i", "c", "e", "/", "1">>, <<"h", "t", "t", "p", "s", ":", "/", "/", "m", ".", "s", "/", "@", "a", "l", "i", "c", "e", "/", "2">>, <<"h", "t", "t", "p", "s", ":", "/", "/", "m", ".", "s", "/", "@", "a", "l", "i", "c", "e", "/", "3">> }

TwoResponses ==
  {Response(TRUE, 200, "json", b) : b \in {"post"}}

InitTwo ==
  /\ inputs = TwoInputs
  /\ cache = <<>> /\ now = 0
  /\ calls = [p \in TwoCallers |-> IdleCall]
  /\ recency = <<>> /\ lastOp = CacheIdle
  /\ parseIn = <<>> /\ parseOut = NotCalled

NextTwo ==
  \/ \E p \in TwoCallers, url \in inputs : Call(p, url)
  \/ \E p \in TwoCallers, r \in TwoResponses : Respond(p, r)
  \/ Tick

SpecTwo == InitTwo /\ [][NextTwo]_vars


(***************************************************************************)
(* The HTTP route POST /api/fetch-post, after fetchPost returned a success: *)
(* the acct repair applied to the post before it is serialized.            *)
(***************************************************************************)
\* new URL(url).hostname of a string new URL accepts: the host in lower case without
\* its port; a scheme that is not special has a host only after "//"
Hostname(url) ==
  LET s == Trim(url)
      colon == CHOOSE i \in 1..Len(s) : s[i] = ":" /\ \A j \in 1..(i - 1) : s[j] # ":"
      special == \E sch \in SpecialSchemes : StartsWith(ToLowerCase(s), sch)
      from == IF special THEN SkipSlashes(s, colon + 1)
              ELSE IF StartsWithAt(s, colon + 1, <<"/", "/">>) THEN colon + 3 ELSE Len(s) + 1
      to == HostEnd(s, from)
      host == [i \in 1..(to - from) |-> s[from + i - 1]]
      port == {i \in 1..Len(host) : host[i] = ":"}
      last == IF port = {} THEN Len(host) ELSE (CHOOSE i \in port : \A j \in port : i <= j) - 1
  IN ToLowerCase([i \in 1..last |-> host[i]])

Thrown == [throws |-> TRUE]

\* variant: the domain of the repaired acct is always the hostname of the request
FixAcctRequestDomain(account, fetchedInstance) ==
  IF account.acct # <<>> THEN account
  ELSE IF ~IsValidUrl(account.url) THEN Thrown
  ELSE [account EXCEPT !.acct = account.username \o <<"@">> \o fetchedInstance]

\* "Fix acct field if it's empty": new URL('') throws into the catch of the route
FixAcct(account, fetchedInstance) ==
  IF account.acct # <<>> THEN account
  ELSE LET username == IF account.username # <<>> THEN account.username
                       ELSE account.displayName
       IN IF ~IsValidUrl(account.url) THEN Thrown
          ELSE LET domain == IF Hostname(account.url) # <<>> THEN Hostname(account.url)
                             ELSE fetchedInstance
               IN [account EXCEPT !.acct = username \o <<"@">> \o domain]

\* accounts as a normalizer may hand them to the route, and the hostname of the request
AccountSamples ==
  [fn : {"fixAcct"},
   account : [username : { <<>>, <<"a", "l", "i", "c", "e">> },
              displayName : { <<>>, <<"A", "l">> },
              url : { <<>>, <<"n", "o", "t", " ", "a", " ", "u", "r", "l">>, <<"h", "t", "t", "p", "s", ":", "/", "/", "a", ".", "e", "x", "a", "m", "p", "l", "e", "/", "@", "a", "l", "i", "c", "e">>,
                      <<"H", "T", "T", "P", "S", ":", "/", "/", "B", ".", "E", "x", "a", "m", "p", "l", "e", ":", "8", "4", "4", "3", "/", "u", "s", "e", "r", "s", "/", "a", "l", "i", "c", "e">>, <<"m", "a", "i", "l", "t", "o", ":", "a", "l", "i", "c", "e">> },
              acct : { <<>>, <<"a", "l", "i", "c", "e">>, <<"a", "l", "i", "c", "e", "@", "r", ".", "e", "x", "a", "m", "p", "l", "e">> }],
   fetchedInstance : { <<"m", ".", "s">> }]

(***************************************************************************)
(* The emoji merge of convertMastodonToUniversal and of                    *)
(* convertActivityPubToUniversal.  An emoji is its shortcode and its url.  *)
(***************************************************************************)
\* const allEmojis = [...accountEmojis];
\* contentEmojis.forEach(emoji => { if (!allEmojis.find(...)) allEmojis.push(emoji) })
RECURSIVE MergeEmojis(_, _)
MergeEmojis(allEmojis, contentEmojis) ==
  IF contentEmojis = <<>> THEN allEmojis
  ELSE LET emoji == Head(contentEmojis) IN
       MergeEmojis(IF \E i \in 1..Len(allEmojis) : allEmojis[i].shortcode = emoji.shortcode
                   THEN allEmojis ELSE Append(allEmojis, emoji),
                   Tail(contentEmojis))

\* the emoji lists of an upstream answer: the same shortcode may come with two urls
EmojiSamples ==
  LET Emojis == {[shortcode |-> "blob", url |-> "u1"], [shortcode |-> "blob", url |-> "u2"],
                 [shortcode |-> "cat", url |-> "u3"]}
      EmojiLists == UNION {[1..n -> Emojis] : n \in 0..MaxEmojis}
  IN [fn : {"merge"}, accountEmojis : EmojiLists, contentEmojis : EmojiLists]

(***************************************************************************)
(* Tags.  convertMastodonToUniversal copies name and url of every tag and  *)
(* types it 'hashtag'.  convertActivityPubToUniversal keeps the tags of    *)
(* type Hashtag or Mention, prefixes '#' to a name that does not start     *)
(* with it (a missing name becomes ''), takes href, else url, else '',     *)
(* and then keeps the tags whose name and url are both non-empty.          *)
(***************************************************************************)
Truthy(s) == s # Undefined /\ s # <<>>

MastodonTags(tags) ==
  [i \in 1..Len(tags) |-> [name |-> tags[i].name, url |-> tags[i].url, type |-> "hashtag"]]

ActivityPubTags(tag) ==
  LET IsTag(t) == t.type = "Hashtag" \/ t.type = "Mention"
      Named(t) ==
        [name |-> IF Truthy(t.name)
                    THEN (IF StartsWith(t.name, <<"#">>) THEN t.name ELSE <<"#">> \o t.name)
                    ELSE <<>>,
         url  |-> IF Truthy(t.href) THEN t.href ELSE IF Truthy(t.url) THEN t.url ELSE <<>>,
         type |-> IF t.type = "Mention" THEN "mention" ELSE "hashtag"]
      Kept(t) == Truthy(t.name) /\ Truthy(t.url)
      typed == SelectSeq(tag, IsTag)
  IN SelectSeq([i \in 1..Len(typed) |-> Named(typed[i])], Kept)

TagSamples ==
  LET Tags == [type : {"Hashtag", "Mention", "Emoji"},
               name : {Undefined, <<"c", "a", "t">>, <<"#", "c", "a", "t">>},
               href : {Undefined, <<"h">>},
               url  : {Undefined, <<"u">>}]
      TagLists == UNION {[1..n -> Tags] : n \in 0..MaxTags}
  IN [fn : {"tags"}, shape : {"mastodon", "activitypub"}, tags : TagLists]

(***************************************************************************)
(* Attachment types.  Both converters keep the declared type (the          *)
(* ActivityPub one in lower case) and change it to 'video' when it is      *)
(* 'document' or 'unknown' and the lower-cased URL matches                 *)
(* /\.(mp4|webm|mov|avi|mkv|flv|wmv)$/.  A URL that is not a string        *)
(* counts as ''.                                                           *)
(***************************************************************************)
VideoExtensions == { <<".", "m", "p", "4">>, <<".", "w", "e", "b", "m">>, <<".", "m", "o", "v">>, <<".", "a", "v", "i">>, <<".", "m", "k", "v">>, <<".", "f", "l", "v">>, <<".", "w", "m", "v">> }

MatchesVideoExtension(url) ==
  \E e \in VideoExtensions :
    Len(url) >= Len(e) /\ SubSeq(url, Len(url) - Len(e) + 1, Len(url)) = e

MastodonAttachmentType(attachment) ==
  LET url == ToLowerCase(IF attachment.url = Undefined THEN <<>> ELSE attachment.url)
  IN IF attachment.type \in { <<"d", "o", "c", "u", "m", "e", "n", "t">>, <<"u", "n", "k", "n", "o", "w", "n">> } /\ MatchesVideoExtension(url)
       THEN <<"v", "i", "d", "e", "o">>
       ELSE attachment.type

ActivityPubAttachmentType(att) ==
  LET attachmentType == ToLowerCase(att.type)
      urlString == ToLowerCase(IF att.url = Undefined THEN <<>> ELSE att.url)
  IN IF attachmentType \in { <<"d", "o", "c", "u", "m", "e", "n", "t">>, <<"u", "n", "k", "n", "o", "w", "n">> } /\ MatchesVideoExtension(urlString)
       THEN <<"v", "i", "d", "e", "o">>
       ELSE attachmentType

AttachmentSamples ==
  LET Urls == {Undefined, <<"a", ".", "m", "p", "4">>, <<"A", ".", "M", "O", "V">>, <<"a", ".", "p", "n", "g">>, <<"a", ".", "m", "p", "4", "x">>, <<"a", "m", "p", "4">>}
  IN [fn : {"attachment"}, shape : {"mastodon"}, url : Urls,
      type : { <<"i", "m", "a", "g", "e">>, <<"v", "i", "d", "e", "o">>, <<"g", "i", "f", "v">>, <<"a", "u", "d", "i", "o">>, <<"u", "n", "k", "n", "o", "w", "n">>, <<"d", "o", "c", "u", "m", "e", "n", "t">> }]
     \cup
     [fn : {"attachment"}, shape : {"activitypub"}, url : Urls,
      type : { <<"D", "o", "c", "u", "m", "e", "n", "t">>, <<"I", "m", "a", "g", "e">>, <<"V", "i", "d", "e", "o">>, <<"A", "u", "d", "i", "o">>, <<"L", "i", "n", "k">> }]

(***************************************************************************)
(* Specification of the conversions: an input is chosen, then converted.   *)
(***************************************************************************)
ConvertSamples == AccountSamples \cup EmojiSamples \cup TagSamples \cup AttachmentSamples

InitConvert ==
  /\ parseIn \in ConvertSamples
  /\ parseOut = NotCalled
  /\ cache = <<>> /\ now = 0 /\ calls = <<>> /\ inputs = {}
  /\ recency = <<>> /\ lastOp = CacheIdle

FixAcctCall ==
  /\ parseOut = NotCalled /\ parseIn.fn = "fixAcct"
  /\ parseOut' = FixAcct(parseIn.account, parseIn.fetchedInstance)
  /\ UNCHANGED <<parseIn, cache, now, calls, inputs, recency, lastOp>>

MergeCall ==
  /\ parseOut = NotCalled /\ parseIn.fn = "merge"
  /\ parseOut' = [emojis |-> MergeEmojis(parseIn.accountEmojis, parseIn.contentEmojis)]
  /\ UNCHANGED <<parseIn, cache, now, calls, inputs, recency, lastOp>>

TagsCall ==
  /\ parseOut = NotCalled /\ parseIn.fn = "tags"
  /\ parseOut' = [tags |-> IF parseIn.shape = "mastodon" THEN MastodonTags(parseIn.tags)
                                                         ELSE ActivityPubTags(parseIn.tags)]
  /\ UNCHANGED <<parseIn, cache, now, calls, inputs, recency, lastOp>>

AttachmentCall ==
  /\ parseOut = NotCalled /\ parseIn.fn = "attachment"
  /\ parseOut' = [type |-> IF parseIn.shape = "mastodon" THEN MastodonAttachmentType(parseIn)
                                                         ELSE ActivityPubAttachmentType(parseIn)]
  /\ UNCHANGED <<parseIn, cache, now, calls, inputs, recency, lastOp>>

ConvertChoose ==
  /\ parseOut # NotCalled
  /\ parseIn' \in ConvertSamples
  /\ parseOut' = NotCalled
  /\ UNCHANGED <<cache, now, calls, inputs, recency, lastOp>>

NextConvert == FixAcctCall \/ MergeCall \/ TagsCall \/ AttachmentCall \/ ConvertChoose

SpecConvert == InitConvert /\ [][NextConvert]_vars
(***************************************************************************)
(* Properties.                                                             *)
(***************************************************************************)
\* a step in which caller p invokes fetchPost (its call record is replaced while no
\* request of p is pending)
IsCallStep(p) == calls[p].pc # "await" /\ calls'[p] # calls[p]

\* C1: every entry of the result cache holds a result with success = true, and a
\* fetchPost call that returns success = false leaves no entry for its URL, so that
\* the next call for that URL goes to the network again.
C1_OnlySuccessCached ==
  [][/\ \A i \in 1..Len(cache') : cache'[i].data.success
     /\ \A p \in Callers :
          (calls'[p] # calls[p] /\ calls'[p].pc = "done" /\ ~calls'[p].result.success)
            => ~MapHas(cache', calls'[p].url)]_vars

C1_Witness ==
  \E p \in Callers :
    /\ calls[p].pc = "done" /\ ~calls[p].result.success
    /\ Len(calls[p].reqs) > 0
    /\ ~MapHas(cache, calls[p].url)

\* C2: a call of fetchPost for a URL whose result was cached no more than TTL ago (and
\* is still in the cache) issues no outbound request and returns the cached result; if
\* the caller's previous call was for the same URL and succeeded, the two results are
\* equal.
C2_CachedCallIsLocal ==
  [][\A p \in Callers :
       LET u == calls'[p].url IN
       (IsCallStep(p) /\ MapHas(cache, u) /\ now - MapGet(cache, u).timestamp <= TTL)
         => /\ calls'[p].pc = "done"
            /\ calls'[p].reqs = <<>>
            /\ calls'[p].result = MapGet(cache, u).data
            /\ (calls[p].pc = "done" /\ calls[p].url = u /\ calls[p].result.success)
                 => calls'[p].result = calls[p].result]_vars

C2_Witness ==
  \E p \in Callers :
    /\ calls[p].pc = "done" /\ calls[p].lookup = "hit"
    /\ calls[p].result.success /\ calls[p].reqs = <<>>
    /\ now > 0

\* C3: LRUCache.get returns a value only for an entry that exists and whose expiry
\* time has not passed, and a call of fetchPost that finds the entry of its URL expired
\* removes the entry and issues a network request instead of returning it.
C3_NoExpiredValue ==
  [][/\ \A u \in inputs :
          LET g == LRUGet(cache, u, now) IN
          g.ret # Null => /\ MapHas(cache, u)
                          /\ now <= MapGet(cache, u).expiresAt
                          /\ g.ret = MapGet(cache, u).data
     /\ \A p \in Callers :
          LET u == calls'[p].url IN
          (IsCallStep(p) /\ MapHas(cache, u) /\ now > MapGet(cache, u).expiresAt)
            => /\ calls'[p].pc = "await"
               /\ Len(calls'[p].reqs) = 1
               /\ ~MapHas(cache', u)]_vars

C3_Witness ==
  \E p \in Callers :
    /\ calls[p].pc = "await" /\ calls[p].lookup = "stale"
    /\ Len(calls[p].reqs) = 1
    /\ ~MapHas(cache, calls[p].url)

\* a step in which set or setWithCustomTTL is called (lastOp names the call just made)
IsSetStep == lastOp'.op \in {"set", "setWithCustomTTL"} /\ now' = now /\ lastOp'.before = MapKeys(cache)

\* C4: a set of a new key that finds the cache full evicts exactly the
\* least-recently-accessed key (accesses being sets and get hits) and, when the
\* capacity exceeds one, keeps the most-recently-accessed key.
C4_EvictsLeastRecent ==
  [][(IsSetStep /\ ~MapHas(cache, lastOp'.key) /\ Len(cache) >= MaxSize /\ Len(recency) > 0)
       => /\ MapKeys(cache') = (MapKeys(cache) \ {recency[1]}) \cup {lastOp'.key}
          /\ (MaxSize > 1 => recency[Len(recency)] \in MapKeys(cache'))]_vars

C4_Witness ==
  /\ lastOp.op = "set"
  /\ Len(cache) = MaxSize
  /\ lastOp.key \notin lastOp.before
  /\ Cardinality(lastOp.before) = MaxSize
  /\ lastOp.before \ MapKeys(cache) # {}

\* C5: the cache never holds more than maxSize entries, and a set of a key that is
\* present replaces its entry and leaves the set of keys as it was.
C5_Bounded ==
  [][/\ Len(cache') <= MaxSize
     /\ (IsSetStep /\ MapHas(cache, lastOp'.key))
          => /\ MapKeys(cache') = MapKeys(cache)
             /\ MapGet(cache', lastOp'.key).timestamp = now]_vars

C5_Witness ==
  /\ lastOp.op = "set"
  /\ Len(cache) = MaxSize
  /\ lastOp.key \in lastOp.before
  /\ lastOp.before = MapKeys(cache)

\* C6: fetchPost never rejects, and an input that is not a syntactically valid URL
\* string yields success = false with errorCode INVALID_URL.
C6_NeverRejects ==
  \A p \in Callers :
    /\ calls[p].pc # "rejected"
    /\ (calls[p].pc = "done" /\ calls[p].lookup # "hit"
          /\ ~(IsString(calls[p].url) /\ IsValidUrl(calls[p].url)))
         => (~calls[p].result.success /\ calls[p].result.errorCode = "INVALID_URL")

\* the error codes that the failure taxonomy lists
ReturnedErrorCodes ==
  {"INVALID_URL", "UNSUPPORTED_PLATFORM", "NETWORK_ERROR", "RATE_LIMITED", "NOT_FOUND",
   "PRIVATE_POST", "SERVER_ERROR", "PARSE_ERROR"}

\* C7: every result fetchPost returns is either a success with data and platform, or
\* a failure with an error message and one of the eight listed error codes.
C7_ResultShape ==
  \A p \in Callers :
    calls[p].pc = "done" =>
      LET res == calls[p].result IN
      \/ res.success /\ res.data # Null /\ res.platform # Absent
      \/ ~res.success /\ res.error \notin {Absent, ""} /\ res.errorCode \in ReturnedErrorCodes

C7_Witness ==
  \E p \in Callers :
    /\ calls[p].pc = "done" /\ ~calls[p].result.success
    /\ calls[p].result.errorCode = "NOT_FOUND"
    /\ calls[p].stage = "" /\ Len(calls[p].reqs) > 1

\* no pattern of the registry, nor the generic shape, matches the URL
NoPatternMatches(url) ==
  /\ \A key \in DOMAIN SUPPORTED_PLATFORMS :
       \A j \in 1..Len(SUPPORTED_PLATFORMS[key].urlPatterns) :
         ~RegexMatchAnchored(SUPPORTED_PLATFORMS[key].urlPatterns[j], Trim(url)).ok
  /\ ~RegexMatchAnchored(GenericFallbackPattern, Trim(url)).ok

\* C8: for a URL that no registered pattern and not the generic shape matches,
\* parseFediverseUrl returns null and fetchPost returns UNSUPPORTED_PLATFORM with no
\* outbound request and no cache entry.
C8_UnmatchedUnsupported ==
  \A p \in Callers :
    (calls[p].pc # "idle" /\ IsString(calls[p].url) /\ IsValidUrl(calls[p].url)
       /\ NoPatternMatches(calls[p].url))
      => /\ parseFediverseUrl(calls[p].url) = Null
         /\ calls[p].pc = "done"
         /\ ~calls[p].result.success
         /\ calls[p].result.errorCode = "UNSUPPORTED_PLATFORM"
         /\ calls[p].reqs = <<>>
         /\ ~MapHas(cache, calls[p].url)

C8_Witness ==
  \E p \in Callers :
    /\ calls[p].pc = "done" /\ IsString(calls[p].url) /\ IsValidUrl(calls[p].url)
    /\ NoPatternMatches(calls[p].url)
    /\ calls[p].result.errorCode = "UNSUPPORTED_PLATFORM"
    /\ ~IsObviouslyNotFediverse(calls[p].url)

\* C9: every example URL that getSupportedPlatforms lists under a platform is parsed
\* to that platform's registry key.
C9_ExamplesParse ==
  \A e \in ExampleUrls :
    (parseIn = e.url /\ parseOut # NotCalled)
      => (parseOut # Null /\ parseOut.platform = e.platform)

\* C10: for a URL classified as mastodon or pleroma, a status-API answer 404 makes
\* fetchPost return NOT_FOUND, 401 or 403 PRIVATE_POST, and 429 RATE_LIMITED.
C10_StatusMapping ==
  \A p \in Callers :
    (calls[p].pc = "done" /\ calls[p].parsed # Null
       /\ calls[p].parsed.platform \in {"mastodon", "pleroma"})
      => /\ calls[p].status = 404
              => (~calls[p].result.success /\ calls[p].result.errorCode = "NOT_FOUND")
         /\ calls[p].status \in {401, 403}
              => (~calls[p].result.success /\ calls[p].result.errorCode = "PRIVATE_POST")
         /\ calls[p].status = 429
              => (~calls[p].result.success /\ calls[p].result.errorCode = "RATE_LIMITED")


(***************************************************************************)
(* C11: when the status API of a Mastodon or a Pleroma instance answers    *)
(* with a non-2xx status other than 401, 403, 404 and 429, the invocation  *)
(* goes on with the generic ActivityPub fetch of the same post: its next   *)
(* request is the first ActivityPub candidate, and what it returns is what *)
(* that fetch returns, a success included.                                 *)
(***************************************************************************)
C11_FallbackOnOtherStatus ==
  \A p \in Callers :
    LET c == calls[p] IN
    (c.pc \in {"await", "done"} /\ c.status \notin {0, 200, 401, 403, 404, 429}) =>
      /\ c.parsed.platform \in {"mastodon", "pleroma"}
      /\ Len(c.reqs) >= 2
      /\ c.reqs[2] = Request("GET", ApCandidates(c.parsed.id)[1], ApAccept)
      /\ c.pc = "await" => c.stage \in {"ap.candidate", "ap.deref", "ap.actor"}
      /\ c.pc = "done" =>
           IF c.result.success
           THEN c.result.platform = "generic" /\ c.result.data.platform = DomainTag
           ELSE c.result \in {ApNotFound, ApServerError("fetch failed"),
                                ApServerError("Unexpected token"),
                                ApServerError("Failed to convert ActivityPub data to universal format")}

C11_Witness ==
  \E p \in Callers :
    /\ calls[p].pc = "done" /\ calls[p].status = 500
    /\ calls[p].parsed.platform = "mastodon"
    /\ calls[p].result.success /\ calls[p].result.platform = "generic"

(***************************************************************************)
(* C12: the post of every successful result has a non-empty platform tag   *)
(* and an account.acct of the form username@domain.                        *)
(* Refuted: convertMastodonToUniversal copies the acct of the API answer,  *)
(* which has no domain for an author of the instance, and                  *)
(* convertActivityPubToUniversal leaves acct empty for an object without   *)
(* attributedTo; fetchPost returns both as they are.                       *)
(***************************************************************************)
IsAcctForm(acct) ==
  \E i \in 2..(Len(acct) - 1) :
    acct[i] = "@" /\ \A j \in (1..Len(acct)) \ {i} : acct[j] # "@"

C12_AcctHasDomain ==
  \A p \in Callers :
    (calls[p].pc = "done" /\ calls[p].result.success) =>
      /\ calls[p].result.data.platform # ""
      /\ IsAcctForm(calls[p].result.data.account.acct)

(***************************************************************************)
(* C13: when the account the route receives has an empty acct and a        *)
(* profile url new URL accepts, the account it delivers has acct equal to  *)
(* the username, or to the displayName when the username is empty,         *)
(* followed by '@' and the hostname of the profile url (the hostname of    *)
(* the request when that url has no host); every other field is as         *)
(* received.                                                               *)
(***************************************************************************)
IsBackfillCase ==
  /\ parseOut # NotCalled /\ parseIn.fn = "fixAcct"
  /\ parseIn.account.acct = <<>> /\ IsValidUrl(parseIn.account.url)

C13_BackfillFromProfileUrl ==
  IsBackfillCase =>
    LET a == parseIn.account
        name == IF a.username = <<>> THEN a.displayName ELSE a.username
        host == IF Hostname(a.url) = <<>> THEN parseIn.fetchedInstance ELSE Hostname(a.url)
    IN /\ parseOut # Thrown
       /\ parseOut.acct = name \o <<"@">> \o host
       /\ parseOut = [a EXCEPT !.acct = parseOut.acct]

C13_Witness ==
  /\ IsBackfillCase
  /\ parseIn.account.username = <<"a", "l", "i", "c", "e">>
  /\ parseIn.account.url = <<"H", "T", "T", "P", "S", ":", "/", "/", "B", ".", "E", "x", "a", "m", "p", "l", "e", ":", "8", "4", "4", "3", "/", "u", "s", "e", "r", "s", "/", "a", "l", "i", "c", "e">>
  /\ parseOut.acct = <<"a", "l", "i", "c", "e", "@", "b", ".", "e", "x", "a", "m", "p", "l", "e">>

\* C13 as stated, for a profile url with a host: the delivered acct is the username
\* followed by '@' and the hostname of the profile url.  Refuted by an account with an
\* empty username and a displayName.
C13_AsStated ==
  (IsBackfillCase /\ Hostname(parseIn.account.url) # <<>>) =>
    /\ parseOut # Thrown
    /\ parseOut.acct = parseIn.account.username \o <<"@">> \o Hostname(parseIn.account.url)

(***************************************************************************)
(* C14: the merged emoji list has no two entries with the same shortcode,  *)
(* holds for every shortcode of either list exactly its first occurrence   *)
(* (account list before content list), and nothing else.                   *)
(* Refuted: the account list is copied as it is, so a shortcode it holds   *)
(* twice stays twice in the result.                                        *)
(***************************************************************************)
C14_MergeDeduplicated ==
  (parseOut # NotCalled /\ parseIn.fn = "merge") =>
    LET all == parseIn.accountEmojis \o parseIn.contentEmojis
        firsts == {i \in 1..Len(all) :
                     \A j \in 1..(i - 1) : all[j].shortcode # all[i].shortcode}
    IN /\ \A i, j \in 1..Len(parseOut.emojis) :
            parseOut.emojis[i].shortcode = parseOut.emojis[j].shortcode => i = j
       /\ {parseOut.emojis[i] : i \in 1..Len(parseOut.emojis)} = {all[i] : i \in firsts}

(***************************************************************************)
(* C15: an invocation of fetchPost that waits for the answer to a request  *)
(* eventually returns, even when the server never answers.                 *)
(* Refuted: time passes and the invocation stays at its await for ever.    *)
(***************************************************************************)
C15_EventuallyReturns ==
  \A p \in Callers : (calls[p].pc = "await") ~> (calls[p].pc = "done")

(***************************************************************************)
(* C16: a run of the periodic sweep leaves no expired entry in the cache   *)
(* that fetchPost reads and writes, whether or not its key is requested    *)
(* again.                                                                  *)
(* Refuted: the timer sweeps the exported instance fediverseApiCache; the  *)
(* entries of FediverseClient.postCache are removed only by a later get of *)
(* their key or by an eviction.                                            *)
(***************************************************************************)
IsSweepStep == lastOp.op # "cleanup" /\ lastOp'.op = "cleanup"

C16_SweepRemovesExpired ==
  [][IsSweepStep => \A i \in 1..Len(cache') : ~(now' > cache'[i].expiresAt)]_vars

(***************************************************************************)
(* C17: an invocation of fetchPost on a URL whose host is a deny-listed    *)
(* domain, or a subdomain of one, returns UNSUPPORTED_PLATFORM in the step *)
(* of the call: parseFediverseUrl has not run, no fetcher has been entered *)
(* and no request has been issued.                                         *)
(***************************************************************************)
IsOnDenyListedDomain(url) ==
  /\ IsString(url) /\ IsValidUrl(url)
  /\ \E i \in 1..Len(obviousNonFediversePatterns) :
       LET host == Hostname(url)
           d == obviousNonFediversePatterns[i]
       IN \/ host = d
          \/ /\ Len(host) > Len(d)
             /\ SubSeq(host, Len(host) - Len(d), Len(host)) = <<".">> \o d

C17_DenyListFailsFast ==
  \A p \in Callers :
    (calls[p].pc # "idle" /\ IsOnDenyListedDomain(calls[p].url)) =>
      /\ calls[p].pc = "done"
      /\ ~calls[p].result.success
      /\ calls[p].result.errorCode = "UNSUPPORTED_PLATFORM"
      /\ calls[p].parsed = Null
      /\ calls[p].stage = "" /\ calls[p].reqs = <<>>
      /\ ~MapHas(cache, calls[p].url)

C17_Witness ==
  \E p \in Callers :
    /\ calls[p].pc = "done" /\ calls[p].url = <<"h", "t", "t", "p", "s", ":", "/", "/", "y", "o", "u", "t", "u", "b", "e", ".", "c", "o", "m", "/", "w", "/", "9", "f", "-", "a">>
    /\ parseFediverseUrl(calls[p].url) # Null
    /\ calls[p].result.errorCode = "UNSUPPORTED_PLATFORM" /\ calls[p].reqs = <<>>

(***************************************************************************)
(* C18: parseFediverseUrl returns the match of the first pattern that      *)
(* matches, the platforms taken in the order mastodon, pixelfed, peertube, *)
(* pleroma, misskey, ech0, generic and the patterns of a platform in list  *)
(* order; the path-shape fallback decides only when no pattern of the      *)
(* registry matches.                                                       *)
(***************************************************************************)
RegistryOrder ==
  <<"mastodon", "pixelfed", "peertube", "pleroma", "misskey", "ech0", "generic">>

\* the places <<platform index, pattern index>> of the registry patterns that match s
MatchingPlaces(s) ==
  {pl \in UNION { {<<i, j>> : j \in 1..Len(SUPPORTED_PLATFORMS[RegistryOrder[i]].urlPatterns)} :
                 i \in 1..Len(RegistryOrder)} :
     RegexMatchAnchored(SUPPORTED_PLATFORMS[RegistryOrder[pl[1]]].urlPatterns[pl[2]], s).ok}

IsBefore(a, b) == a[1] < b[1] \/ (a[1] = b[1] /\ a[2] <= b[2])

C18_FirstMatchWins ==
  parseOut # NotCalled =>
    LET s == Trim(parseIn)
        places == MatchingPlaces(s)
    IN IF places = {}
       THEN parseOut = Null
              \/ (parseOut.platform = "generic"
                    /\ RegexMatchAnchored(GenericFallbackPattern, s).ok)
       ELSE LET first == CHOOSE a \in places : \A b \in places : IsBefore(a, b)
                key == RegistryOrder[first[1]]
                m == RegexMatchAnchored(SUPPORTED_PLATFORMS[key].urlPatterns[first[2]], s)
            IN /\ parseOut # Null
               /\ parseOut.platform = key
               /\ parseOut.domain = m.caps[1]
               /\ parseOut.id = m.caps[Len(m.caps)]

C18_Witness ==
  /\ parseOut # NotCalled
  /\ parseIn = <<"h", "t", "t", "p", "s", ":", "/", "/", "m", ".", "s", "/", "u", "s", "e", "r", "s", "/", "a", "l", "i", "c", "e", "/", "s", "t", "a", "t", "u", "s", "e", "s", "/", "1", "2", "3">>
  /\ {<<1, 2>>, <<2, 4>>} \subseteq MatchingPlaces(parseIn)
  /\ parseOut.platform = "mastodon" /\ parseOut.id = <<"1", "2", "3">>

(***************************************************************************)
(* C19: when fetchPost returns a failure for a URL that parseFediverseUrl  *)
(* matched, the secondary strategy of the platform has been attempted: the *)
(* invocation has requested the post as an ActivityPub object.  The        *)
(* failures that a fetcher maps from the statuses 401, 403, 404 and 429 of *)
(* the API answer are left aside.                                          *)
(* Refuted even so: fetchMastodonPost returns PARSE_ERROR on an answer 200 *)
(* with an unparsable body without entering fetchActivityPubObject.        *)
(***************************************************************************)
ActivityPubTried(c) == \E i \in 1..Len(c.reqs) : c.reqs[i].accept = ApAccept

C19_FailureAfterFallbacks ==
  \A p \in Callers :
    (/\ calls[p].pc = "done" /\ ~calls[p].result.success /\ calls[p].parsed # Null
     /\ calls[p].status \notin {401, 403, 404, 429}) =>
      ActivityPubTried(calls[p])

(***************************************************************************)
(* C20: within one invocation of fetchPost no request for an ActivityPub   *)
(* object (same method, URL and Accept header) is issued twice.            *)
(* Refuted: for a URL classified generic that looks like PeerTube or       *)
(* Misskey, the fetcher tried first ends in fetchActivityPubObject, and on *)
(* its failure the dispatch runs fetchActivityPubObject again for the same *)
(* domain and id.                                                          *)
(***************************************************************************)
C20_NoRequestTwice ==
  \A p \in Callers :
    \A i, j \in 1..Len(calls[p].reqs) :
      (calls[p].reqs[i].accept = ApAccept /\ calls[p].reqs[i] = calls[p].reqs[j]) => i = j

(***************************************************************************)
(* C21: an invocation that normalizes an ActivityPub object whose          *)
(* attributedTo is a URL string issues exactly one request that resolves   *)
(* the actor, after the request of the post.                               *)
(* Refuted: fetchEch0Post, after the normalizer has fetched the actor,     *)
(* resolves the same account again through WebFinger and then fetches the  *)
(* actor profile a second time.                                            *)
(***************************************************************************)
IsActorResolution(req) ==
  req.url \in {ActorRequest.url, "{selfLink}",
               "https://{actorDomain}/.well-known/webfinger?resource=acct:{acct}"}

C21_OneActorRequest ==
  \A p \in Callers :
    LET reqs == calls[p].reqs
        actor == {i \in 1..Len(reqs) : IsActorResolution(reqs[i])}
    IN actor # {} => (Cardinality(actor) = 1 /\ \A i \in actor : i > 1)

(***************************************************************************)
(* C22: when fetchActivityPubObject has requested the object that a Create *)
(* activity refers to and returns a success, the post was built from the   *)
(* referenced object.                                                      *)
(* Refuted: when the request of the object is answered with a status that  *)
(* is not OK, the Create activity itself is normalized and returned as a   *)
(* success.                                                                *)
(***************************************************************************)
C22_BuiltFromReferenced ==
  \A p \in Callers :
    (calls[p].pc = "done" /\ calls[p].result.success) => calls[p].built # "wrapper"

(***************************************************************************)
(* C23: fetchPixelfedPost requests the v1 statuses endpoint only after the *)
(* v2 endpoint, and enters the ActivityPub and HTML extraction only after  *)
(* both the v2 and the v1 endpoint have been requested.                    *)
(* Refuted: when the v2 request is rejected, or is answered OK with a body *)
(* that cannot be used, the extraction starts with v1 never requested.     *)
(***************************************************************************)
PixelfedApiUrl(v) == "https://{domain}/api/" \o v \o "/statuses/{id}"

C23_PixelfedOrder ==
  \A p \in Callers :
    LET reqs == calls[p].reqs IN
    (calls[p].parsed # Null /\ calls[p].parsed.platform = "pixelfed") =>
    \A i \in 1..Len(reqs) :
      /\ reqs[i].url = PixelfedApiUrl("v1") =>
           (i > 1 /\ reqs[i - 1].url = PixelfedApiUrl("v2"))
      /\ reqs[i].url = PixelfedCandidates[1] =>
           \E j, k \in 1..(i - 1) :
             j < k /\ reqs[j].url = PixelfedApiUrl("v2") /\ reqs[k].url = PixelfedApiUrl("v1")

\* C24: in every normalized post each tag name begins with '#', and a source
\* tag is dropped only when it lacks both its name and its URL, for
\* Mastodon-shaped JSON as well as for ActivityPub objects.  The source
\* tags here are hashtags and mentions only (other ActivityPub tag types
\* are outside the statement).
IsTagOfPost(t) == t.type \in {"Hashtag", "Mention"}

LacksNameAndUrl(t) == ~Truthy(t.name) /\ ~Truthy(t.href) /\ ~Truthy(t.url)

C24_TagsNormalized ==
  (parseIn.fn = "tags" /\ parseOut # NotCalled) =>
    LET src == SelectSeq(parseIn.tags, IsTagOfPost)
        kept == {i \in 1..Len(src) : ~LacksNameAndUrl(src[i])}
    IN /\ \A i \in 1..Len(parseOut.tags) : StartsWith(parseOut.tags[i].name, <<"#">>)
       /\ (parseIn.shape = "activitypub" \/ Len(src) = Len(parseIn.tags)) =>
            Len(parseOut.tags) >= Cardinality(kept)

\* C25: every attachment of a normalized post has a type of the canonical set
\* {image, video, audio, gifv, document}; a declared type document or unknown
\* with a URL ending in a known video extension becomes video.
CanonicalAttachmentTypes == { <<"i", "m", "a", "g", "e">>, <<"v", "i", "d", "e", "o">>, <<"a", "u", "d", "i", "o">>, <<"g", "i", "f", "v">>, <<"d", "o", "c", "u", "m", "e", "n", "t">> }

C25_AttachmentTypeCanonical ==
  (parseIn.fn = "attachment" /\ parseOut # NotCalled) =>
    /\ parseOut.type \in CanonicalAttachmentTypes
    /\ (/\ ToLowerCase(parseIn.type) \in { <<"d", "o", "c", "u", "m", "e", "n", "t">>, <<"u", "n", "k", "n", "o", "w", "n">> }
        /\ parseIn.url # Undefined
        /\ MatchesVideoExtension(ToLowerCase(parseIn.url))) => parseOut.type = <<"v", "i", "d", "e", "o">>

\* C26: the shared cache is safe under concurrent fetchPost calls.  Every step of
\* an invocation (the code between two awaits) leaves the cache whole: at most
\* MaxSize entries, no key twice, every entry complete; and a step that returns a
\* cache hit leaves the same entries, the one it returned moved to the end.
CacheWhole(c) ==
  /\ Len(c) <= MaxSize
  /\ Cardinality(MapKeys(c)) = Len(c)
  /\ \A i \in 1..Len(c) :
       /\ c[i].key \in inputs
       /\ c[i].data # Null /\ c[i].data.success
       /\ c[i].expiresAt = c[i].timestamp + TTL

IsHitStep(p) ==
  calls'[p] # calls[p] /\ calls[p].pc # "await" /\ calls'[p].lookup = "hit"

C26_CacheTurnsWhole ==
  [][/\ CacheWhole(cache')
     /\ \A p \in TwoCallers :
          IsHitStep(p) =>
            /\ MapKeys(cache') = MapKeys(cache)
            /\ cache'[Len(cache')] = MapGet(cache, calls'[p].url)
            /\ calls'[p].result = cache'[Len(cache')].data]_vars

\* the cache is full, one invocation has returned a hit and the other is suspended
\* at its request for a URL that has no entry
C26_Witness ==
  /\ Len(cache) = MaxSize
  /\ calls["c1"].pc = "await" /\ ~MapHas(cache, calls["c1"].url)
  /\ calls["c2"].pc = "done" /\ calls["c2"].lookup = "hit"

\* C29: there is no in-flight de-duplication.  An invocation that finds no usable
\* entry issues its own request even while another invocation is waiting for the
\* same URL, and an invocation that returns a fetched success leaves exactly one
\* entry for its URL, the one it has just written, so that after both have
\* returned the entry is that of the invocation that returned last.
IsMissStep(p) ==
  calls'[p] # calls[p] /\ calls[p].pc # "await" /\ calls'[p].lookup \in {"miss", "stale"}

IsFetchedReturn(p) ==
  calls[p].pc = "await" /\ calls'[p].pc = "done" /\ calls'[p].result.success

C29_NoInFlightDedup ==
  [][\A p \in TwoCallers :
       /\ IsMissStep(p) =>
            (calls'[p].pc = "await" /\ Len(calls'[p].reqs) = 1)
       /\ IsFetchedReturn(p) =>
            /\ Cardinality({i \in 1..Len(cache') : cache'[i].key = calls'[p].url}) = 1
            /\ MapGet(cache', calls'[p].url)
                 = CacheEntry(calls'[p].url, calls'[p].result, now, TTL)]_vars

\* both invocations found no entry for the same URL, each made its request, both
\* have returned, and the one entry was written after the clock had advanced
C29_Witness ==
  /\ calls["c1"].pc = "done" /\ calls["c2"].pc = "done"
  /\ calls["c1"].url = calls["c2"].url
  /\ calls["c1"].lookup = "miss" /\ calls["c2"].lookup = "miss"
  /\ Len(calls["c1"].reqs) = 1 /\ Len(calls["c2"].reqs) = 1
  /\ calls["c1"].result.success /\ calls["c2"].result.success
  /\ Len(cache) = 1 /\ cache[1].key = calls["c1"].url /\ cache[1].timestamp > 0

\* C27: the deny-list rejects a URL only when the URL's domain is a listed domain:
\* an invocation that returns the deny-list's UNSUPPORTED_PLATFORM was given a URL
\* whose host is a listed domain or a subdomain of one.
IsDenyListAnswer(result) ==
  /\ ~result.success
  /\ result = DenyListCheck(<<"h", "t", "t", "p", "s", ":", "/", "/", "y", "o", "u", "t", "u", "b", "e", ".", "c", "o", "m", "/">>)

C27_DenyListByDomain ==
  \A p \in Callers :
    (calls[p].pc = "done" /\ IsDenyListAnswer(calls[p].result)) =>
      IsOnDenyListedDomain(calls[p].url)

\* C28: in every successful result the platform tags agree: data.platform and
\* data.account.platform equal the top-level platform, which is a key of the
\* registry or 'generic', whichever fetcher or fallback produced the result.
PlatformKeys == {"mastodon", "pixelfed", "peertube", "pleroma", "misskey", "ech0", "generic"}

C28_PlatformTagsAgree ==
  \A p \in Callers :
    (calls[p].pc = "done" /\ calls[p].result.success) =>
      /\ calls[p].result.platform \in PlatformKeys
      /\ calls[p].result.data.platform = calls[p].result.platform
      /\ calls[p].result.data.account.platform = calls[p].result.platform

\* C30: a cache hit does not extend the lifetime of an entry.  A get that returns a
\* value, and a has that answers true, move the entry to the end of the recency
\* order and leave it as it was written, expiresAt included; the value is returned
\* no later than its expiresAt, which is at most one TTL after the set.
IsReadHit ==
  /\ now' = now /\ lastOp'.before = MapKeys(cache)
  /\ \/ lastOp'.op = "get" /\ lastOp'.ret # Null
     \/ lastOp'.op = "has" /\ lastOp'.ret = [bool |-> TRUE]

C30_HitKeepsLifetime ==
  [][IsReadHit =>
       LET key == lastOp'.key IN
       /\ MapHas(cache, key) /\ MapHas(cache', key)
       /\ MapGet(cache', key) = MapGet(cache, key)
       /\ cache'[Len(cache')].key = key
       /\ now <= MapGet(cache, key).expiresAt
       /\ MapGet(cache, key).expiresAt <= MapGet(cache, key).timestamp + TTL]_vars

\* a get has returned a value at the last moment of its lifetime and promoted it
\* past another entry
C30_Witness ==
  /\ lastOp.op = "get" /\ lastOp.ret # Null
  /\ Len(cache) >= 2 /\ cache[Len(cache)].key = lastOp.key
  /\ cache[Len(cache)].timestamp < cache[1].timestamp
  /\ now = cache[Len(cache)].timestamp + TTL
====
